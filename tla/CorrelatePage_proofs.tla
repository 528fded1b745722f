------------------------- MODULE CorrelatePage_proofs -------------------------
(***************************************************************************)
(* What the Correlate page shows once all its calls are answered, proved   *)
(* for any number of sumps, sessions, rules and acts of the user.          *)
(***************************************************************************)
EXTENDS CorrelatePage, FiniteSetTheorems, WellFoundedInduction, TLAPS

(***************************************************************************)
(* The invariant.  First the types: what a call names exists, a handler    *)
(* that closes a session holds a copy of a row of the same sump, and the   *)
(* value of an answer fits the call it answers.                            *)
(***************************************************************************)

SessionOps == {"session", "start", "pause", "resume", "stop"}
ChangeOps == {"create", "enable", "disable", "delete"}

KnownCall == {c \in Call :
    /\ c.op \in {"pause", "resume", "stop", "dismiss"} => c.arg \in DOMAIN sessions
    /\ c.op \in {"enable", "disable", "delete"} => c.arg \in DOMAIN rules}

KnownSummary == {v \in Summary : v.id \in DOMAIN sessions /\ v.sump = sessions[v.id].sump}

KnownRules == SUBSET ((DOMAIN rules) \X {"enabled", "disabled"})

KnownJob == {j \in Job :
    /\ j.call \in KnownCall
    /\ j.call.op \in {"query", "evaluate", "pause", "stop"}
    /\ j.todo \subseteq DOMAIN rules
    /\ j.row # Null => j.id \in DOMAIN sessions /\ j.row.sump = sessions[j.id].sump
    /\ j.call.op \in {"pause", "stop"} => j.row # Null /\ j.id = j.call.arg}

ValueOf(op) ==
    CASE op = "query"         -> {"some", "none", "failed"}
      [] op = "evaluate"      -> BOOLEAN
      [] op \in SessionOps    -> KnownSummary \cup {Null}
      [] op = "interrupted"   -> SUBSET DOMAIN sessions
      [] op = "rules"         -> KnownRules
      [] OTHER                -> {Null}

Answer == UNION {[call : {c}, value : ValueOf(c.op)] : c \in KnownCall}

KnownPage == {p \in Page : /\ p.session \in KnownSummary \cup {Null}
                           /\ p.notices \subseteq DOMAIN sessions
                           /\ p.rules \in KnownRules}

\* Without a page nothing on its way is heard.
Unheard ==
    /\ \A i \in DOMAIN requests : ~requests[i].live
    /\ \A i \in DOMAIN working : ~working[i].call.live
    /\ \A i \in DOMAIN replies : ~replies[i].call.live

Typed ==
    /\ page \in KnownPage \cup {Null}
    /\ requests \in Seq(KnownCall)
    /\ working \in Seq(KnownJob)
    /\ replies \in Seq(Answer)
    /\ sessions \in Seq(Row) /\ Len(sessions) <= MaxSessions
    /\ rules \in Seq(Rule) /\ Len(rules) <= MaxRules
    /\ acts \in 0 .. MaxActs
    /\ calm \in BOOLEAN /\ ruled \in BOOLEAN
    /\ page = Null => Unheard

(***************************************************************************)
(* Then the order of what is on its way.                                   *)
(***************************************************************************)

\* Some live call of the operation, and the last one, which is of the sump.
Has(calls, op) == \E i \in DOMAIN calls : calls[i].live /\ calls[i].op = op

Ends(calls, op, sump) ==
    \E i \in DOMAIN calls :
        /\ calls[i].live /\ calls[i].op = op /\ calls[i].sump = sump
        /\ \A j \in DOMAIN calls : j > i /\ calls[j].live => calls[j].op # op

Answered == [i \in DOMAIN replies |-> replies[i].call]
Taken == [i \in DOMAIN working |-> working[i].call]

\* A page that is loading has its query on its way.
Loading ==
    page # Null /\ page.phase = "loading" =>
        Has(requests, "query") \/ Has(Taken, "query") \/ Has(Answered, "query")

\* The last notices to come are those of the sump selected, whatever was on its
\* way when it was: a call for the session is followed by one for the notices.
Own(sump) == {s \in DOMAIN sessions : sessions[s].sump = sump}

NoticesLast(calls, answers, sump, shown, right) ==
    \/ Ends(calls, "session", sump)
    \/ /\ ~Has(calls, "session")
       /\ \/ Ends(answers, "session", sump)
          \/ /\ ~Has(answers, "session")
             /\ \/ Ends(calls, "interrupted", sump)
                \/ /\ ~Has(calls, "interrupted")
                   /\ \/ Ends(answers, "interrupted", sump)
                      \/ /\ ~Has(answers, "interrupted")
                         /\ shown \subseteq right

LastNotices ==
    page # Null =>
        NoticesLast(requests, Answered, page.sump, page.notices, Own(page.sump))

\* The answers of these operations, in the order they come, leave on the page a
\* value that is right.
LastSays(answers, ops, shown, right) ==
    \/ \E i \in DOMAIN answers :
         /\ answers[i].call.op \in ops /\ answers[i].value \in right
         /\ \A j \in DOMAIN answers : j > i => answers[j].call.op \notin ops
    \/ /\ \A i \in DOMAIN answers : answers[i].call.op \notin ops
       /\ shown \in right

Selected == page # Null /\ calm

\* Calls of this page, for the sump selected and its sessions.
Here(c) ==
    /\ c.live /\ c.sump = page.sump
    /\ c.op \in {"pause", "resume", "stop"} => sessions[c.arg].sump = page.sump

AllHere ==
    Selected =>
        /\ \A i \in DOMAIN requests : Here(requests[i])
        /\ \A i \in DOMAIN working : Here(working[i].call)
        /\ \A i \in DOMAIN replies : Here(replies[i].call)

RecordsHere == Selected /\ page.phase = "ready" => page.records = page.sump

RulesAsked ==
    \/ \E i \in DOMAIN requests : requests[i].op \in ChangeOps \cup {"rules"}
    \/ \E i \in DOMAIN replies : replies[i].call.op \in ChangeOps

RulesHere ==
    Selected =>
        \/ RulesAsked
        \/ LastSays(replies, {"rules"}, page.rules, {ListEventRulesForSump(page.sump)})

\* The session is asked for once, and its answer is followed by the notices.
Chain(c) == c.op \in {"session", "interrupted"}

ChainAsked == \E i \in DOMAIN requests : Chain(requests[i])
ChainAnswered == \E i \in DOMAIN replies : Chain(replies[i].call)

Once ==
    Selected =>
        /\ \A i, j \in DOMAIN requests : Chain(requests[i]) /\ Chain(requests[j]) => i = j
        /\ \A i, j \in DOMAIN replies :
             Chain(replies[i].call) /\ Chain(replies[j].call) => i = j
        /\ ~(ChainAsked /\ ChainAnswered)

\* Until the notices have come, none of this sump is shown or dismissed, and the
\* copies of its rows agree with them.
Dismisses(c) == c.op = "dismiss" /\ sessions[c.arg].sump = page.sump

NoticesToCome ==
    Selected /\ (ChainAsked \/ ChainAnswered) =>
        /\ \A s \in page.notices : sessions[s].sump # page.sump
        /\ \A i \in DOMAIN requests : ~Dismisses(requests[i])
        /\ \A i \in DOMAIN replies : ~Dismisses(replies[i].call)
        /\ \A i \in DOMAIN working :
             working[i].row # Null /\ working[i].row.sump = page.sump =>
                 working[i].row.notice = sessions[working[i].id].notice
        /\ \A i \in DOMAIN replies :
             replies[i].call.op = "interrupted" =>
                 \A s \in replies[i].value :
                     sessions[s].sump = page.sump => sessions[s].notice

\* Then those shown are up, and no copy will take one down, except those that are
\* about to go.
Up(s) ==
    /\ sessions[s].notice
    /\ \A i \in DOMAIN working :
         working[i].row # Null /\ working[i].id = s => working[i].row.notice

Dismissing(s) ==
    \E i \in DOMAIN replies : replies[i].call.op = "dismiss" /\ replies[i].call.arg = s

NoticesHere ==
    Selected /\ ~(ChainAsked \/ ChainAnswered) =>
        \A s \in page.notices : /\ sessions[s].sump = page.sump
                                /\ Up(s) \/ Dismissing(s)

\* A summary that says of the sump what the table does.
TrueSession(sump) ==
    {v \in KnownSummary \cup {Null} :
        IF v = Null THEN Active(sump) = {}
        ELSE v.sump = sump /\ v.status = sessions[v.id].status}

SessionHere ==
    Selected /\ ~ruled =>
        \/ \E i \in DOMAIN requests : requests[i].op = "session"
        \/ LastSays(replies, SessionOps, page.session, TrueSession(page.sump))

PageInv ==
    /\ Loading /\ LastNotices
    /\ AllHere /\ RecordsHere /\ RulesHere
    /\ Once /\ NoticesToCome /\ NoticesHere
    /\ SessionHere
-----------------------------------------------------------------------------
(***************************************************************************)
(* Sequences and sets.                                                     *)
(***************************************************************************)

\* A set of naturals with an upper bound has a greatest element.
LEMMA MaxExists ==
    ASSUME NEW n \in Nat, NEW S \in SUBSET (1 .. n), S # {}
    PROVE  Max(S) \in S /\ \A y \in S : Max(S) >= y
<1> DEFINE Above(i) == {j \in S : j > i}
           T == {Above(i) : i \in S}
<1>1. IsFiniteSet(S)
  <2>1. IsFiniteSet(1 .. n)
    BY FS_Interval
  <2> QED
    BY <2>1, FS_Subset
<1>2. \A i \in S : Above(i) \in FiniteSubsetsOf(S)
  <2>1. \A i \in S : Above(i) \in SUBSET S
    OBVIOUS
  <2> HIDE DEF Above
  <2> QED
    BY <1>1, <2>1, FS_FiniteSubsetsOfFinite
<1>3. PICK x \in T : \A y \in T : <<y, x>> \notin StrictSubsetOrdering(S)
  <2>1. T \subseteq FiniteSubsetsOf(S) /\ T # {}
    BY <1>2
  <2> HIDE DEF T
  <2> QED
    BY <1>1, <2>1, FS_StrictSubsetOrderingWellFounded, WFMin
<1>4. PICK i \in S : x = Above(i)
  BY x \in T
<1>5. ASSUME NEW j \in S, j > i  PROVE  FALSE
  <2>1. Above(j) \in T /\ Above(j) \in SUBSET S /\ x \in SUBSET S
    BY <1>4
  <2>a. \A k \in S : k \in Nat
    OBVIOUS
  <2>b. \A k \in Above(j) : k \in Above(i)
    BY <1>5, <2>a
  <2>2. Above(j) \subseteq x /\ j \in x /\ j \notin Above(j)
    <3>1. j \notin Above(j)
      BY <2>a
    <3>2. j \in Above(i)
      BY <1>5
    <3> HIDE DEF Above
    <3> QED
      BY <1>4, <2>b, <3>1, <3>2
  <2> HIDE DEF Above, T
  <2>3. <<Above(j), x>> \in StrictSubsetOrdering(S)
    BY <2>1, <2>2 DEF StrictSubsetOrdering
  <2> QED
    BY <1>3, <2>1, <2>3
<1>6. i \in S /\ \A y \in S : i >= y
  BY <1>5
<1> QED
  BY <1>6 DEF Max

\* What is left when one element of a sequence is removed.
LEMMA RemoveAtFacts ==
    ASSUME NEW S, NEW q \in Seq(S), NEW i \in DOMAIN q
    PROVE  /\ RemoveAt(q, i) \in Seq(S)
           /\ DOMAIN RemoveAt(q, i) = 1 .. Len(q) - 1
           /\ \A j \in 1 .. Len(q) - 1 : RemoveAt(q, i)[j] = q[IF j < i THEN j ELSE j + 1]
<1>1. SubSeq(q, 1, i - 1) \in Seq(S) /\ SubSeq(q, i + 1, Len(q)) \in Seq(S)
  OBVIOUS
<1>2. Len(SubSeq(q, 1, i - 1)) = i - 1 /\ Len(SubSeq(q, i + 1, Len(q))) = Len(q) - i
  OBVIOUS
<1> DEFINE front == SubSeq(q, 1, i - 1)
           back == SubSeq(q, i + 1, Len(q))
<1>a. \A a, b \in Seq(S) : a \o b \in Seq(S) /\ Len(a \o b) = Len(a) + Len(b)
  OBVIOUS
<1>3. RemoveAt(q, i) \in Seq(S) /\ Len(RemoveAt(q, i)) = Len(q) - 1
  <2>1. RemoveAt(q, i) = front \o back
    BY DEF RemoveAt
  <2>2. Len(front) + Len(back) = Len(q) - 1
    BY <1>2
  <2> HIDE DEF front, back
  <2> QED
    BY <1>1, <1>a, <2>1, <2>2 DEF front, back
<1>4. ASSUME NEW j \in 1 .. Len(q) - 1
      PROVE  RemoveAt(q, i)[j] = q[IF j < i THEN j ELSE j + 1]
  <2>1. CASE j < i
    BY <1>1, <1>2, <2>1 DEF RemoveAt
  <2>2. CASE ~(j < i)
    <3>1. RemoveAt(q, i)[j] = SubSeq(q, i + 1, Len(q))[j - (i - 1)]
      BY <1>1, <1>2, <2>2 DEF RemoveAt
    <3>2. j - (i - 1) \in 1 .. Len(q) - i
      BY <2>2
    <3> QED
      BY <2>2, <3>1, <3>2
  <2> QED
    BY <2>1, <2>2
<1> QED
  BY <1>3, <1>4

\* The elements left are those at the other positions, in their order.
LEMMA RemoveAtElements ==
    ASSUME NEW S, NEW q \in Seq(S), NEW i \in DOMAIN q
    PROVE  /\ \A j \in DOMAIN RemoveAt(q, i) :
                 \E k \in DOMAIN q : k # i /\ RemoveAt(q, i)[j] = q[k]
           /\ \A k \in DOMAIN q :
                 k # i => \E j \in DOMAIN RemoveAt(q, i) : RemoveAt(q, i)[j] = q[k]
<1>1. \A j \in DOMAIN RemoveAt(q, i) :
        \E k \in DOMAIN q : k # i /\ RemoveAt(q, i)[j] = q[k]
  <2>1. TAKE j \in DOMAIN RemoveAt(q, i)
  <2>2. j \in 1 .. Len(q) - 1 /\ RemoveAt(q, i)[j] = q[IF j < i THEN j ELSE j + 1]
    BY RemoveAtFacts
  <2>3. (IF j < i THEN j ELSE j + 1) \in DOMAIN q /\ (IF j < i THEN j ELSE j + 1) # i
    BY <2>2
  <2> QED
    BY <2>2, <2>3
<1>2. ASSUME NEW k \in DOMAIN q, k # i
      PROVE  \E j \in DOMAIN RemoveAt(q, i) : RemoveAt(q, i)[j] = q[k]
  <2>1. CASE k < i
    <3>1. k \in 1 .. Len(q) - 1
      BY <2>1
    <3> QED
      BY <2>1, <3>1, RemoveAtFacts
  <2>2. CASE k > i
    <3>1. k - 1 \in 1 .. Len(q) - 1 /\ ~(k - 1 < i) /\ (k - 1) + 1 = k
      BY <2>2
    <3> QED
      BY <3>1, RemoveAtFacts
  <2> QED
    BY <1>2, <2>1, <2>2
<1> QED
  BY <1>1, <1>2

LEMMA SeqOfMore == ASSUME NEW S, NEW T, S \subseteq T  PROVE Seq(S) \subseteq Seq(T)
OBVIOUS

LEMMA HeadOf ==
    ASSUME NEW S, NEW q \in Seq(S), q # << >>
    PROVE  /\ Head(q) \in S /\ Tail(q) \in Seq(S)
           /\ 1 \in DOMAIN q /\ Head(q) = q[1]
           /\ Len(Tail(q)) = Len(q) - 1
           /\ \A i \in DOMAIN Tail(q) : i + 1 \in DOMAIN q /\ Tail(q)[i] = q[i + 1]
           /\ \A i \in DOMAIN q : i # 1 => i - 1 \in DOMAIN Tail(q) /\ Tail(q)[i - 1] = q[i]
OBVIOUS

\* The calls of a first render, one after the other.
Opening(op, sump) == [op |-> op, sump |-> sump, arg |-> Null, live |-> TRUE]

LEMMA SameSequence ==
    ASSUME NEW S, NEW x \in Seq(S), NEW y \in Seq(S), Len(x) = Len(y),
           \A i \in 1 .. Len(x) : x[i] = y[i]
    PROVE  x = y
OBVIOUS

LEMMA FunctionIsSequence ==
    ASSUME NEW S, NEW n \in Nat, NEW f \in [1 .. n -> S]
    PROVE  f \in Seq(S) /\ Len(f) = n
OBVIOUS

LEMMA JoinFacts ==
    ASSUME NEW S, NEW s \in Seq(S), NEW t \in Seq(S)
    PROVE  /\ s \o t \in Seq(S) /\ Len(s \o t) = Len(s) + Len(t)
           /\ \A i \in 1 .. Len(s) : (s \o t)[i] = s[i]
           /\ \A i \in 1 .. Len(t) : (s \o t)[Len(s) + i] = t[i]
OBVIOUS

LEMMA ThreeAppends ==
    ASSUME NEW S, NEW q \in Seq(S), NEW new \in Seq(S), Len(new) = 3
    PROVE  q \o new = Append(Append(Append(q, new[1]), new[2]), new[3])
<1> DEFINE r == Append(Append(Append(q, new[1]), new[2]), new[3])
           t == q \o new
<1>1. new[1] \in S /\ new[2] \in S /\ new[3] \in S
  OBVIOUS
<1>2. /\ r \in Seq(S) /\ Len(r) = Len(q) + 3
      /\ \A i \in 1 .. Len(q) : r[i] = q[i]
      /\ r[Len(q) + 1] = new[1] /\ r[Len(q) + 2] = new[2] /\ r[Len(q) + 3] = new[3]
  BY <1>1
<1>3. /\ t \in Seq(S) /\ Len(t) = Len(q) + 3
      /\ \A i \in 1 .. Len(q) : t[i] = q[i]
      /\ \A i \in 1 .. 3 : t[Len(q) + i] = new[i]
  <2>1. /\ t \in Seq(S) /\ Len(t) = Len(q) + Len(new)
        /\ \A i \in 1 .. Len(q) : t[i] = q[i]
        /\ \A i \in 1 .. Len(new) : t[Len(q) + i] = new[i]
    BY ONLY q \in Seq(S), new \in Seq(S), JoinFacts
  <2> QED
    BY <2>1
<1> HIDE DEF r, t
<1>4. t[Len(q) + 1] = new[1] /\ t[Len(q) + 2] = new[2] /\ t[Len(q) + 3] = new[3]
  BY <1>3
<1>5. Len(q) \in Nat
  OBVIOUS
<1>6. \A i \in 1 .. Len(q) + 3 : r[i] = t[i]
  <2> TAKE i \in 1 .. Len(q) + 3
  <2>1. i \in 1 .. Len(q) \/ i = Len(q) + 1 \/ i = Len(q) + 2 \/ i = Len(q) + 3
    BY <1>5
  <2> QED
    BY <1>2, <1>3, <1>4, <2>1
<1>7. r = t
  BY <1>2, <1>3, <1>6, SameSequence
<1> QED
  BY <1>7 DEF r, t

LEMMA EffectAppends ==
    ASSUME NEW S, NEW q \in Seq(S), NEW sump,
           \A op \in {"query", "session", "rules"} : Opening(op, sump) \in S
    PROVE  q \o [i \in 1 .. 3 |-> [op |-> <<"query", "session", "rules">>[i], sump |-> sump,
                                   arg |-> Null, live |-> TRUE]]
           = Append(Append(Append(q, Opening("query", sump)), Opening("session", sump)),
                    Opening("rules", sump))
<1> DEFINE new == [i \in 1 .. 3 |-> [op |-> <<"query", "session", "rules">>[i], sump |-> sump,
                                     arg |-> Null, live |-> TRUE]]
           name == <<"query", "session", "rules">>
<1>1. name[1] = "query" /\ name[2] = "session" /\ name[3] = "rules"
  OBVIOUS
<1>2. \A i \in 1 .. 3 : new[i] = Opening(name[i], sump)
  BY DEF Opening
<1>3. DOMAIN new = 1 .. 3 /\ new = [i \in 1 .. 3 |-> new[i]]
  OBVIOUS
<1> HIDE DEF new, name
<1>4. \A i \in 1 .. 3 : new[i] \in S
  BY <1>1, <1>2
<1>5. new \in Seq(S) /\ Len(new) = 3
  <2>1. new \in [1 .. 3 -> S]
    BY <1>3, <1>4
  <2> QED
    BY <2>1, FunctionIsSequence
<1>6. new[1] = Opening("query", sump) /\ new[2] = Opening("session", sump)
      /\ new[3] = Opening("rules", sump)
  BY <1>1, <1>2
<1>7. q \o new = Append(Append(Append(q, new[1]), new[2]), new[3])
  BY <1>5, ThreeAppends
<1> QED
  BY <1>6, <1>7 DEF new

\* What some call, the last call and the last answer of a kind are after one is
\* appended, and after the first is taken.
LEMMA HasAppend ==
    ASSUME NEW q \in Seq(Call), NEW c \in Call, NEW op
    PROVE  Has(Append(q, c), op) <=> Has(q, op) \/ (c.live /\ c.op = op)
<1>1. /\ DOMAIN Append(q, c) = 1 .. Len(q) + 1 /\ DOMAIN q = 1 .. Len(q)
      /\ \A i \in DOMAIN q : Append(q, c)[i] = q[i]
      /\ Append(q, c)[Len(q) + 1] = c /\ Len(q) \in Nat
  OBVIOUS
<1> QED
  BY <1>1 DEF Has

LEMMA HasTail ==
    ASSUME NEW q \in Seq(Call), q # << >>, NEW op
    PROVE  Has(q, op) <=> Has(Tail(q), op) \/ (Head(q).live /\ Head(q).op = op)
<1>1. ASSUME Has(q, op)
      PROVE  Has(Tail(q), op) \/ (Head(q).live /\ Head(q).op = op)
  <2>1. PICK i \in DOMAIN q : q[i].live /\ q[i].op = op
    BY <1>1 DEF Has
  <2>2. CASE i = 1
    BY <2>1, <2>2, HeadOf
  <2>3. CASE i # 1
    BY <2>1, <2>3, HeadOf DEF Has
  <2> QED
    BY <2>2, <2>3
<1>2. ASSUME Has(Tail(q), op) \/ (Head(q).live /\ Head(q).op = op)
      PROVE  Has(q, op)
  BY <1>2, HeadOf DEF Has
<1> QED
  BY <1>1, <1>2

LEMMA EndsAppend ==
    ASSUME NEW q \in Seq(Call), NEW c \in Call, NEW op, NEW sump
    PROVE  Ends(Append(q, c), op, sump) <=>
               IF c.live /\ c.op = op THEN c.sump = sump ELSE Ends(q, op, sump)
<1>1. /\ DOMAIN Append(q, c) = 1 .. Len(q) + 1 /\ DOMAIN q = 1 .. Len(q)
      /\ \A i \in DOMAIN q : Append(q, c)[i] = q[i]
      /\ Append(q, c)[Len(q) + 1] = c /\ Len(q) \in Nat
  OBVIOUS
<1> DEFINE r == Append(q, c)
<1> HIDE DEF r
<1>2. CASE c.live /\ c.op = op
  <2>1. Len(q) + 1 \in DOMAIN r /\ \A i \in DOMAIN r : i = Len(q) + 1 \/ Len(q) + 1 > i
    BY <1>1 DEF r
  <2>2. r[Len(q) + 1] = c
    BY <1>1 DEF r
  <2>3. Ends(r, op, sump) <=> c.sump = sump
    BY <1>2, <2>1, <2>2 DEF Ends
  <2> QED
    BY <1>2, <2>3 DEF r
<1>3. CASE ~(c.live /\ c.op = op)
  <2>1. ASSUME Ends(r, op, sump)  PROVE Ends(q, op, sump)
    <3>1. PICK i \in DOMAIN r :
            /\ r[i].live /\ r[i].op = op /\ r[i].sump = sump
            /\ \A j \in DOMAIN r : j > i /\ r[j].live => r[j].op # op
      BY <2>1 DEF Ends
    <3>2. i \in DOMAIN q
      BY <1>1, <1>3, <3>1 DEF r
    <3>3. \A j \in DOMAIN q : j > i /\ q[j].live => q[j].op # op
      BY <1>1, <3>1 DEF r
    <3> QED
      BY <1>1, <3>1, <3>2, <3>3 DEF Ends, r
  <2>2. ASSUME Ends(q, op, sump)  PROVE Ends(r, op, sump)
    <3>1. PICK i \in DOMAIN q :
            /\ q[i].live /\ q[i].op = op /\ q[i].sump = sump
            /\ \A j \in DOMAIN q : j > i /\ q[j].live => q[j].op # op
      BY <2>2 DEF Ends
    <3>2. i \in DOMAIN r /\ r[i] = q[i]
      BY <1>1 DEF r
    <3>3. \A j \in DOMAIN r : j > i /\ r[j].live => r[j].op # op
      BY <1>1, <1>3, <3>1 DEF r
    <3> QED
      BY <3>1, <3>2, <3>3 DEF Ends
  <2> QED
    BY <1>3, <2>1, <2>2 DEF r
<1> QED
  BY <1>2, <1>3

LEMMA EndsTail ==
    ASSUME NEW q \in Seq(Call), q # << >>, NEW op, NEW sump, Ends(q, op, sump)
    PROVE  IF Has(Tail(q), op) THEN Ends(Tail(q), op, sump)
           ELSE Head(q).live /\ Head(q).op = op /\ Head(q).sump = sump
<1> DEFINE t == Tail(q)
<1>1. PICK i \in DOMAIN q :
        /\ q[i].live /\ q[i].op = op /\ q[i].sump = sump
        /\ \A j \in DOMAIN q : j > i /\ q[j].live => q[j].op # op
  BY DEF Ends
<1>2. DOMAIN q = 1 .. Len(q) /\ Len(q) \in Nat /\ DOMAIN t = 1 .. Len(q) - 1
  OBVIOUS
<1>h. /\ Head(q) = q[1]
      /\ \A j \in DOMAIN t : j + 1 \in DOMAIN q /\ t[j] = q[j + 1]
      /\ \A j \in DOMAIN q : j # 1 => j - 1 \in DOMAIN t /\ t[j - 1] = q[j]
  BY HeadOf
<1> HIDE DEF t
<1>3. CASE i = 1
  <2>1. \A j \in DOMAIN t : t[j].live => t[j].op # op
    <3> TAKE j \in DOMAIN t
    <3>1. j + 1 \in DOMAIN q /\ j + 1 > 1 /\ t[j] = q[j + 1]
      BY <1>2, <1>h
    <3> QED
      BY <1>1, <1>3, <3>1
  <2>2. ~Has(t, op)
    BY <2>1 DEF Has
  <2> QED
    BY <1>1, <1>3, <1>h, <2>2 DEF t
<1>4. CASE i # 1
  <2>1. i - 1 \in DOMAIN t /\ t[i - 1] = q[i]
    BY <1>4, <1>h
  <2>2. \A j \in DOMAIN t : j > i - 1 /\ t[j].live => t[j].op # op
    <3> TAKE j \in DOMAIN t
    <3>1. j + 1 \in DOMAIN q /\ t[j] = q[j + 1] /\ (j > i - 1 => j + 1 > i)
      BY <1>2, <1>h
    <3> QED
      BY <1>1, <3>1
  <2>3. Ends(t, op, sump) /\ Has(t, op)
    BY <1>1, <2>1, <2>2 DEF Ends, Has
  <2> QED
    BY <2>3 DEF t
<1> QED
  BY <1>3, <1>4

\* A call that is not live, or of another kind, ends nothing.
LEMMA EndsHas ==
    ASSUME NEW q \in Seq(Call), NEW op, NEW sump, Ends(q, op, sump)
    PROVE  Has(q, op)
BY DEF Ends, Has

LEMMA LastSaysAppend ==
    ASSUME NEW S, NEW a \in Seq(S), NEW r \in S, NEW ops, NEW shown, NEW right,
           IF r.call.op \in ops THEN r.value \in right ELSE LastSays(a, ops, shown, right)
    PROVE  LastSays(Append(a, r), ops, shown, right)
<1> DEFINE b == Append(a, r)
<1>1. /\ DOMAIN b = 1 .. Len(a) + 1 /\ DOMAIN a = 1 .. Len(a)
      /\ \A i \in DOMAIN a : b[i] = a[i]
      /\ b[Len(a) + 1] = r /\ Len(a) \in Nat
  OBVIOUS
<1> HIDE DEF b
<1>2. CASE r.call.op \in ops
  <2>1. Len(a) + 1 \in DOMAIN b /\ \A j \in DOMAIN b : ~(j > Len(a) + 1)
    BY <1>1
  <2> QED
    BY <1>1, <1>2, <2>1 DEF LastSays, b
<1>3. CASE r.call.op \notin ops
  <2>1. CASE \A i \in DOMAIN a : a[i].call.op \notin ops
    <3>1. shown \in right
      BY <1>3, <2>1 DEF LastSays
    <3>2. \A i \in DOMAIN b : b[i].call.op \notin ops
      BY <1>1, <1>3, <2>1
    <3> QED
      BY <3>1, <3>2 DEF LastSays, b
  <2>2. CASE ~ \A i \in DOMAIN a : a[i].call.op \notin ops
    <3>1. PICK i \in DOMAIN a :
            /\ a[i].call.op \in ops /\ a[i].value \in right
            /\ \A j \in DOMAIN a : j > i => a[j].call.op \notin ops
      BY <1>3, <2>2 DEF LastSays
    <3>2. i \in DOMAIN b /\ b[i] = a[i]
      BY <1>1
    <3>3. \A j \in DOMAIN b : j > i => b[j].call.op \notin ops
      BY <1>1, <1>3, <3>1
    <3> QED
      BY <3>1, <3>2, <3>3 DEF LastSays, b
  <2> QED
    BY <2>1, <2>2
<1> QED
  BY <1>2, <1>3

LEMMA LastSaysTail ==
    ASSUME NEW S, NEW a \in Seq(S), a # << >>, NEW ops, NEW shown, NEW right,
           LastSays(a, ops, shown, right)
    PROVE  LastSays(Tail(a), ops,
                    IF Head(a).call.op \in ops THEN Head(a).value ELSE shown, right)
<1> DEFINE t == Tail(a)
<1>1. DOMAIN a = 1 .. Len(a) /\ Len(a) \in Nat /\ DOMAIN t = 1 .. Len(a) - 1
  OBVIOUS
<1>h. /\ Head(a) = a[1] /\ 1 \in DOMAIN a
      /\ \A j \in DOMAIN t : j + 1 \in DOMAIN a /\ t[j] = a[j + 1]
      /\ \A j \in DOMAIN a : j # 1 => j - 1 \in DOMAIN t /\ t[j - 1] = a[j]
  BY HeadOf
<1> HIDE DEF t
<1>2. CASE (\A i \in DOMAIN a : a[i].call.op \notin ops) /\ shown \in right
  <2>1. \A j \in DOMAIN t : t[j].call.op \notin ops
    BY <1>2, <1>h
  <2> QED
    BY <1>2, <1>h, <2>1 DEF LastSays, t
<1>3. ASSUME NEW i \in DOMAIN a, a[i].call.op \in ops, a[i].value \in right,
             \A j \in DOMAIN a : j > i => a[j].call.op \notin ops
      PROVE  LastSays(t, ops, IF Head(a).call.op \in ops THEN Head(a).value ELSE shown, right)
  <2>1. \A j \in DOMAIN t : j > i - 1 => t[j].call.op \notin ops
    <3> TAKE j \in DOMAIN t
    <3>1. j + 1 \in DOMAIN a /\ t[j] = a[j + 1] /\ (j > i - 1 => j + 1 > i)
      BY <1>1, <1>h
    <3> QED
      BY <1>3, <3>1
  <2>2. CASE i = 1
    <3>1. \A j \in DOMAIN t : t[j].call.op \notin ops
      BY <1>1, <2>1, <2>2
    <3> QED
      BY <1>3, <1>h, <2>2, <3>1 DEF LastSays
  <2>3. CASE i # 1
    <3>1. i - 1 \in DOMAIN t /\ t[i - 1] = a[i]
      BY <1>h, <2>3
    <3> QED
      BY <1>3, <2>1, <3>1 DEF LastSays
  <2> QED
    BY <2>2, <2>3
<1> QED
  BY <1>2, <1>3 DEF LastSays, t

LEMMA LastSaysMore ==
    ASSUME NEW a, NEW ops, NEW shown, NEW right, NEW more, right \subseteq more,
           LastSays(a, ops, shown, right)
    PROVE  LastSays(a, ops, shown, more)
BY DEF LastSays

-----------------------------------------------------------------------------
(***************************************************************************)
(* Types.                                                                  *)
(***************************************************************************)

LEMMA NullIsOther ==
    Null \notin Nat /\ Null \notin Sumps /\ Null \notin Row /\ Null \notin Summary /\ Null \notin Page
BY PageAssumption

LEMMA AnswerOf ==
    ASSUME NEW r \in Answer
    PROVE  /\ r.call \in KnownCall /\ r.value \in ValueOf(r.call.op)
           /\ r = [call |-> r.call, value |-> r.value]
BY DEF Answer

\* What the catalog may do: rows are added and keep their sump, rules are added.
Grows ==
    /\ DOMAIN sessions \subseteq DOMAIN sessions'
    /\ \A s \in DOMAIN sessions : sessions'[s].sump = sessions[s].sump
    /\ DOMAIN rules \subseteq DOMAIN rules'

\* Then whatever was known still is.
LEMMA KnownGrows ==
    ASSUME Grows
    PROVE  /\ KnownCall \subseteq KnownCall' /\ KnownSummary \subseteq KnownSummary'
           /\ KnownJob \subseteq KnownJob' /\ KnownRules \subseteq KnownRules'
           /\ KnownPage \subseteq KnownPage' /\ Answer \subseteq Answer'
<1>1. KnownCall \subseteq KnownCall'
  BY DEF KnownCall, Grows
<1>2. KnownSummary \subseteq KnownSummary'
  BY DEF KnownSummary, Grows
<1>3. KnownJob \subseteq KnownJob'
  <2> SUFFICES ASSUME NEW j \in KnownJob  PROVE j \in KnownJob'
    OBVIOUS
  <2>1. j \in Job /\ j.call \in KnownCall'
    BY <1>1 DEF KnownJob
  <2>2. j.todo \subseteq DOMAIN rules'
    BY DEF KnownJob, Grows
  <2>3. j.row # Null => j.id \in DOMAIN sessions' /\ j.row.sump = sessions'[j.id].sump
    BY DEF KnownJob, Grows
  <2> QED
    BY <2>1, <2>2, <2>3 DEF KnownJob
<1>4. KnownRules \subseteq KnownRules'
  BY DEF KnownRules, Grows
<1>5. KnownPage \subseteq KnownPage'
  <2> SUFFICES ASSUME NEW p \in KnownPage  PROVE p \in KnownPage'
    OBVIOUS
  <2>1. p \in Page /\ p.session \in KnownSummary' \cup {Null} /\ p.rules \in KnownRules'
    BY <1>2, <1>4 DEF KnownPage
  <2>2. p.notices \subseteq DOMAIN sessions'
    BY DEF KnownPage, Grows
  <2> QED
    BY <2>1, <2>2 DEF KnownPage
<1>6. Answer \subseteq Answer'
  <2> SUFFICES ASSUME NEW r \in Answer  PROVE r \in Answer'
    OBVIOUS
  <2>1. r.call \in KnownCall' /\ r = [call |-> r.call, value |-> r.value]
    BY <1>1, AnswerOf
  <2>2. r.value \in ValueOf(r.call.op)
    BY AnswerOf
  <2>3. r.value \in ValueOf(r.call.op)'
    BY <1>2, <1>4, <2>2 DEF ValueOf, Grows
  <2>4. Answer' = UNION {[call : {c}, value : ValueOf(c.op)'] : c \in KnownCall'}
    BY DEF Answer
  <2> QED
    BY <2>1, <2>3, <2>4
<1> QED
  BY <1>1, <1>2, <1>3, <1>4, <1>5, <1>6

\* The row of an active session, if there is one.
LEMMA ActiveFacts ==
    ASSUME sessions \in Seq(Row), NEW sump
    PROVE  /\ Active(sump) \subseteq DOMAIN sessions
           /\ \A s \in Active(sump) : sessions[s].sump = sump
           /\ Active(sump) = {} => ActiveSession(sump) = Null
           /\ Active(sump) # {} => /\ ActiveSession(sump) \in Active(sump)
                                   /\ ActiveSession(sump) # Null
<1>1. Active(sump) \in SUBSET (1 .. Len(sessions)) /\ Len(sessions) \in Nat
  BY DEF Active
<1>2. \A s \in Active(sump) : sessions[s].sump = sump /\ s \in Nat
  BY <1>1 DEF Active
<1>3. Active(sump) # {} => Max(Active(sump)) \in Active(sump)
  BY <1>1, MaxExists
<1> QED
  BY <1>1, <1>2, <1>3, NullIsOther DEF ActiveSession

LEMMA BegunFacts ==
    ASSUME Typed, NEW sump \in Sumps, Active(sump) = {} => Len(sessions) < MaxSessions
    PROVE  /\ Begun(sump) \in Seq(Row) /\ Len(Begun(sump)) <= MaxSessions
           /\ Active(sump) # {} => Begun(sump) = sessions
           /\ Active(sump) = {} =>
                /\ Len(Begun(sump)) = Len(sessions) + 1
                /\ Begun(sump)[Len(sessions) + 1] =
                     [sump |-> sump, status |-> "recording", notice |-> FALSE]
           /\ DOMAIN sessions \subseteq DOMAIN Begun(sump)
           /\ \A s \in DOMAIN sessions : Begun(sump)[s] = sessions[s]
<1> DEFINE row == [sump |-> sump, status |-> "recording", notice |-> FALSE]
<1>1. row \in Row
  BY DEF Row
<1>2. Len(sessions) \in Nat /\ sessions \in Seq(Row) /\ Len(sessions) <= MaxSessions
  BY DEF Typed
<1> HIDE DEF row
<1>3. /\ Append(sessions, row) \in Seq(Row)
      /\ Len(Append(sessions, row)) = Len(sessions) + 1
      /\ Append(sessions, row)[Len(sessions) + 1] = row
      /\ \A s \in DOMAIN sessions : /\ s \in DOMAIN Append(sessions, row)
                                    /\ Append(sessions, row)[s] = sessions[s]
  BY <1>1, <1>2
<1>4. CASE Active(sump) # {}
  BY <1>2, <1>4 DEF Begun
<1>5. CASE Active(sump) = {}
  <2>1. Begun(sump) = Append(sessions, row)
    BY <1>5 DEF Begun, row
  <2>2. Len(sessions) + 1 <= MaxSessions
    BY <1>2, <1>5, PageAssumption
  <2> QED
    BY <1>3, <1>5, <2>1, <2>2 DEF row
<1> QED
  BY <1>4, <1>5

\* A row a handler has kept a copy of is written back for the same sump.
LEMMA ClosedRowFacts ==
    ASSUME NEW job \in KnownJob, job.row # Null
    PROVE  /\ ClosedRow(job) \in Row
           /\ ClosedRow(job).sump = job.row.sump
           /\ ClosedRow(job).notice = job.row.notice
           /\ job.id \in DOMAIN sessions /\ job.row.sump = sessions[job.id].sump
<1>1. job.row \in Row
  BY DEF KnownJob, Job
<1> QED
  BY <1>1 DEF ClosedRow, Row, KnownJob

\* One row changes, for the same sump.
LEMMA RowChanges ==
    ASSUME sessions \in Seq(Row), NEW s \in DOMAIN sessions, NEW row \in Row,
           row.sump = sessions[s].sump, sessions' = [sessions EXCEPT ![s] = row]
    PROVE  /\ sessions' \in Seq(Row) /\ Len(sessions') = Len(sessions)
           /\ DOMAIN sessions' = DOMAIN sessions /\ sessions'[s] = row
           /\ \A t \in DOMAIN sessions : t # s => sessions'[t] = sessions[t]
           /\ \A t \in DOMAIN sessions : sessions'[t].sump = sessions[t].sump
OBVIOUS

Tables ==
    /\ sessions \in Seq(Row) /\ Len(sessions) <= MaxSessions
    /\ rules \in Seq(Rule) /\ Len(rules) <= MaxRules

LEMMA HeadRequest ==
    ASSUME Typed, requests # << >>
    PROVE  /\ Head(requests) \in KnownCall /\ Head(requests) \in Call
           /\ Tail(requests) \in Seq(KnownCall)
BY HeadOf DEF Typed, KnownCall

LEMMA WorkingJob ==
    ASSUME Typed, NEW i \in DOMAIN working
    PROVE  working[i] \in KnownJob /\ working[i] \in Job /\ working[i].call \in KnownCall
BY DEF Typed, KnownJob

\* No step removes a row or gives it to another sump.
LEMMA TablesStep ==
    ASSUME Typed, Next
    PROVE  Tables' /\ Grows
<1> USE DEF Tables, Grows
<1>t. Tables /\ Len(sessions) \in Nat /\ Len(rules) \in Nat
  BY DEF Typed
<1>same. ASSUME UNCHANGED catalog  PROVE Tables' /\ Grows
  BY <1>same, <1>t DEF catalog
<1>one. ASSUME UNCHANGED rules,
               \E s \in DOMAIN sessions : \E row \in Row :
                   row.sump = sessions[s].sump /\ sessions' = [sessions EXCEPT ![s] = row]
        PROVE  Tables' /\ Grows
  BY <1>one, <1>t, RowChanges
<1>new. ASSUME UNCHANGED rules, NEW sump \in Sumps, sessions' = Begun(sump),
               Active(sump) = {} => Len(sessions) < MaxSessions
        PROVE  Tables' /\ Grows
  BY <1>new, <1>t, BegunFacts
<1>1. CASE UserActs
  BY <1>1, <1>same DEF UserActs, OpenPage, SelectSump, LeavePage, Refresh, HandleStartSession,
     HandlePauseSession, HandleResumeSession, HandleStopSession, ClickedSession,
     HandleDismissInterrupted, HandleCreateRule, HandleToggleRule, HandleDeleteRule,
     Clicked, Asked
<1>2. CASE Receive
  BY <1>2, <1>same DEF Receive
<1>3. CASE MainReads
  <2>h. Head(requests) \in KnownCall /\ Head(requests) \in Call
    BY <1>3, HeadRequest DEF MainReads, QueryRecords, GetRecordingSession,
       GetInterruptedSessions, DismissInterruptedSession, ListEventRules, CreateEventRule,
       ChangeEventRule, StartRecordingSession, ResumeRecordingSession,
       CloseRecordingSession, EvaluateEventRules, Reads
  <2>s. Head(requests).sump \in Sumps
    BY <2>h DEF Call
  <2>1. CASE QueryRecords \/ EvaluateEventRules
    BY <2>1, <1>same DEF QueryRecords, EvaluateEventRules, Awaits
  <2>2. CASE GetRecordingSession \/ GetInterruptedSessions \/ ListEventRules
    BY <2>2, <1>same DEF GetRecordingSession, GetInterruptedSessions, ListEventRules
  <2>3. CASE DismissInterruptedSession
    <3> DEFINE s == Head(requests).arg
               row == [sessions[s] EXCEPT !.notice = FALSE]
    <3>1. s \in DOMAIN sessions
      BY <2>3, <2>h DEF DismissInterruptedSession, Reads, KnownCall
    <3>a. sessions[s] \in Row
      BY <1>t, <3>1
    <3>2. row \in Row /\ row.sump = sessions[s].sump
      BY <3>a DEF Row
    <3>3. sessions' = [sessions EXCEPT ![s] = row]
      BY <2>3, <3>1 DEF DismissInterruptedSession
    <3>4. UNCHANGED rules
      BY <2>3 DEF DismissInterruptedSession
    <3> HIDE DEF row, s
    <3> QED
      BY <1>one, <3>1, <3>2, <3>3, <3>4
  <2>4. CASE CreateEventRule
    <3>1. PICK rule \in Rule : rules' = Append(rules, rule)
      <4>1. PICK action \in EventAction :
              rules' = Append(rules, [sump |-> Head(requests).sump, action |-> action,
                                      state |-> "enabled"])
        BY <2>4 DEF CreateEventRule, UpsertEventRule
      <4>2. [sump |-> Head(requests).sump, action |-> action, state |-> "enabled"] \in Rule
        BY <2>s DEF Rule
      <4> QED
        BY <4>1, <4>2
    <3>2. UNCHANGED sessions /\ Len(rules) < MaxRules
      BY <2>4 DEF CreateEventRule
    <3>3. rules' \in Seq(Rule) /\ Len(rules') = Len(rules) + 1
      BY <1>t, <3>1
    <3> QED
      BY <1>t, <3>1, <3>2, <3>3, PageAssumption
  <2>5. CASE ChangeEventRule
    <3> DEFINE r == Head(requests).arg
    <3>1. r \in DOMAIN rules
      BY <2>5, <2>h DEF ChangeEventRule, Reads, KnownCall
    <3>2. PICK rule : rule \in Rule /\ rules' = [rules EXCEPT ![r] = rule]
      <4> DEFINE op == Head(requests).op
                 to == CASE op = "enable"  -> "enabled"
                         [] op = "disable" -> "disabled"
                         [] op = "delete"  -> "deleted"
                 rule == [rules[r] EXCEPT !.state = IF @ = "deleted" THEN @ ELSE to]
      <4>1. op \in {"enable", "disable", "delete"}
        BY <2>5 DEF ChangeEventRule, Reads
      <4>2. to \in {"enabled", "disabled", "deleted"}
        BY <4>1
      <4>3. rules' = [rules EXCEPT ![r] = rule]
        BY <2>5, <3>1 DEF ChangeEventRule
      <4>4. rules[r] \in Rule
        BY <1>t, <3>1
      <4> HIDE DEF to, r
      <4>5. rule \in Rule
        BY <4>2, <4>4 DEF Rule
      <4> QED
        BY <4>3, <4>5
    <3>3. UNCHANGED sessions
      BY <2>5 DEF ChangeEventRule
    <3> HIDE DEF r
    <3>4. rules' \in Seq(Rule) /\ Len(rules') = Len(rules) /\ DOMAIN rules' = DOMAIN rules
      BY <1>t, <3>1, <3>2
    <3> QED
      BY <1>t, <3>3, <3>4
  <2>6. CASE StartRecordingSession
    <3>1. /\ sessions' = Begun(Head(requests).sump) /\ UNCHANGED rules
          /\ Active(Head(requests).sump) = {} => Len(sessions) < MaxSessions
      BY <2>6 DEF StartRecordingSession
    <3> QED
      BY <1>new, <2>s, <3>1
  <2>7. CASE ResumeRecordingSession
    <3> DEFINE s == Head(requests).arg
               next == IF sessions[s].status = "paused" THEN "recording"
                       ELSE sessions[s].status
               row == [sessions[s] EXCEPT !.status = next]
    <3>1. s \in DOMAIN sessions
      BY <2>7, <2>h DEF ResumeRecordingSession, Reads, KnownCall
    <3>a. sessions[s] \in Row
      BY <1>t, <3>1
    <3>b. next \in {"recording", "paused", "stopped"}
      BY <3>a DEF Row
    <3>2. row \in Row /\ row.sump = sessions[s].sump
      <4> HIDE DEF next
      <4> QED
        BY <3>a, <3>b DEF Row
    <3>3. sessions' = [sessions EXCEPT ![s] = row]
      BY <2>7, <3>1 DEF ResumeRecordingSession
    <3>4. UNCHANGED rules
      BY <2>7 DEF ResumeRecordingSession
    <3> HIDE DEF row, s
    <3> QED
      BY <1>one, <3>1, <3>2, <3>3, <3>4
  <2>8. CASE CloseRecordingSession
    <3> DEFINE s == Head(requests).arg
               next == IF Head(requests).op = "stop" THEN "stopped" ELSE sessions[s].status
               row == [sessions[s] EXCEPT !.status = next]
    <3>1. s \in DOMAIN sessions
      BY <2>8, <2>h DEF CloseRecordingSession, Reads, KnownCall
    <3>a. sessions[s] \in Row
      BY <1>t, <3>1
    <3>b. next \in {"recording", "paused", "stopped"}
      BY <3>a DEF Row
    <3>2. row \in Row /\ row.sump = sessions[s].sump
      <4> HIDE DEF next
      <4> QED
        BY <3>a, <3>b DEF Row
    <3>3. CASE sessions[s].status = "recording"
      BY <2>8, <3>3, <1>same DEF CloseRecordingSession, Awaits
    <3>4. CASE sessions[s].status # "recording"
      <4>1. sessions' = [sessions EXCEPT ![s] = row] /\ UNCHANGED rules
        BY <2>8, <3>1, <3>4 DEF CloseRecordingSession
      <4> HIDE DEF row, s
      <4> QED
        BY <1>one, <3>1, <3>2, <4>1
    <3> QED
      BY <3>3, <3>4
  <2> QED
    BY <1>3, <2>1, <2>2, <2>3, <2>4, <2>5, <2>6, <2>7, <2>8 DEF MainReads
<1>4. ASSUME NEW i \in DOMAIN working, MainSettles(i)  PROVE Tables' /\ Grows
  <2>j. working[i] \in KnownJob /\ working[i].call \in KnownCall
    BY WorkingJob
  <2>s. working[i].call.sump \in Sumps
    BY <2>j DEF KnownCall, Call
  <2>c. ASSUME working[i].row # Null, UNCHANGED rules,
               sessions' = [sessions EXCEPT ![working[i].id] = ClosedRow(working[i])]
        PROVE  Tables' /\ Grows
    BY <2>c, <2>j, <1>one, ClosedRowFacts
  <2>1. CASE SettleQuery(i)
    BY <2>1, <1>same DEF SettleQuery
  <2>2. CASE SettleClose(i)
    BY <2>2, <2>c, <2>j DEF SettleClose, KnownJob
  <2>3. CASE EvaluationGoesOn(i)
    <3> DEFINE job == working[i]
               s == ActiveSession(job.call.sump)
    <3>0. UNCHANGED rules
      BY <2>3 DEF EvaluationGoesOn
    <3>1. CASE /\ job.row # Null
               /\ sessions' = [sessions EXCEPT ![job.id] = ClosedRow(job)]
      BY <2>c, <3>0, <3>1
    <3>2. CASE sessions' = Begun(job.call.sump) /\ (s = Null => Len(sessions) < MaxSessions)
      <4>1. Active(job.call.sump) = {} => Len(sessions) < MaxSessions
        BY <1>t, <3>2, ActiveFacts
      <4> QED
        BY <1>new, <2>s, <3>0, <3>2, <4>1
    <3>3. CASE s # Null /\ sessions' = [sessions EXCEPT ![s].status = "stopped"]
      <4> DEFINE row == [sessions[s] EXCEPT !.status = "stopped"]
      <4>1. s \in DOMAIN sessions
        BY <1>t, <3>3, ActiveFacts
      <4>a. sessions[s] \in Row
        BY <1>t, <4>1
      <4>2. row \in Row /\ row.sump = sessions[s].sump
        BY <4>a DEF Row
      <4>3. sessions' = [sessions EXCEPT ![s] = row]
        BY <3>3, <4>1
      <4> HIDE DEF row, s
      <4> QED
        BY <1>one, <3>0, <4>1, <4>2, <4>3
    <3>4. CASE UNCHANGED sessions
      BY <1>same, <3>0, <3>4 DEF catalog
    <3> QED
      BY <2>3, <3>1, <3>2, <3>3, <3>4 DEF EvaluationGoesOn
  <2> QED
    BY <1>4, <2>1, <2>2, <2>3 DEF MainSettles
<1> QED
  BY <1>1, <1>2, <1>3, <1>4 DEF Next

-----------------------------------------------------------------------------
(***************************************************************************)
(* What a step does, by what it moves: a call is asked for, a sump shown, a *)
(* call taken up or answered, a handler settled or one rule further.       *)
(***************************************************************************)

OnShown == {"pause", "resume", "stop"}

Asks(c) ==
    /\ page # Null /\ UNCHANGED <<working, replies, catalog, ruled>>
    /\ acts' \in 0 .. MaxActs
    /\ c \in KnownCall /\ c.live /\ c.sump = page.sump
    /\ c.op \notin {"session", "interrupted", "rules", "evaluate"}
    /\ requests' = Append(requests, c)
    /\ page' = IF c.op = "query" THEN [page EXCEPT !.phase = "loading"] ELSE page
    /\ c.op \in OnShown => page.session # Null /\ c.arg = page.session.id
    /\ c.op = "dismiss" => c.arg \in page.notices
    /\ calm' \in BOOLEAN
    /\ calm' => calm /\ (c.op \in OnShown => page.session.sump = page.sump)

Shows(sump) ==
    /\ page' \in KnownPage /\ page'.sump = sump /\ page'.phase = "loading"
    /\ \/ page'.notices = {}
       \/ page # Null /\ page.sump # sump /\ page'.notices = page.notices
    /\ requests' = Append(Append(Append(requests, Opening("query", sump)),
                                 Opening("session", sump)),
                          Opening("rules", sump))
    /\ \A op \in {"query", "session", "rules"} : Opening(op, sump) \in KnownCall
    /\ acts' \in 0 .. MaxActs
    /\ calm' \in BOOLEAN /\ (calm' => Still)
    /\ ruled' = FALSE
    /\ UNCHANGED <<working, replies, catalog>>

LEMMA ActsType ==
    ASSUME Typed, Acts
    PROVE  acts' \in 0 .. MaxActs
BY PageAssumption DEF Typed, Acts

LEMMA PageShown ==
    ASSUME Typed, page # Null
    PROVE  /\ page \in KnownPage /\ page \in Page /\ page.sump \in Sumps
           /\ page.session \in KnownSummary \cup {Null}
           /\ page.session # Null => page.session.id \in DOMAIN sessions
           /\ page.notices \subseteq DOMAIN sessions
           /\ \A rule \in page.rules : rule[1] \in DOMAIN rules
BY DEF Typed, KnownPage, Page, KnownSummary, KnownRules

\* A button.
LEMMA AskedKnown ==
    ASSUME Typed, page # Null, NEW arg, NEW op,
           \/ op \in {"query", "start", "create"} /\ arg = Null
           \/ op \in {"pause", "resume", "stop", "dismiss"} /\ arg \in DOMAIN sessions
           \/ op \in {"enable", "disable", "delete"} /\ arg \in DOMAIN rules
    PROVE  [op |-> op, sump |-> page.sump, arg |-> arg, live |-> TRUE] \in KnownCall
<1>1. DOMAIN sessions \subseteq SessionIds /\ DOMAIN rules \subseteq RuleIds
  BY PageAssumption DEF Typed, SessionIds, RuleIds
<1>2. page.sump \in Sumps
  BY PageShown
<1> QED
  BY <1>1, <1>2 DEF KnownCall, Call

LEMMA OpeningKnown ==
    ASSUME NEW sump \in Sumps
    PROVE  \A op \in {"query", "session", "rules"} : Opening(op, sump) \in KnownCall
BY DEF Opening, KnownCall, Call

LEMMA UserMoves ==
    ASSUME Typed, UserActs
    PROVE  \/ \E c \in KnownCall : Asks(c)
           \/ \E sump \in Sumps : Shows(sump)
           \/ LeavePage
<1>e. ASSUME NEW sump \in Sumps, Effect(sump)
      PROVE  /\ requests' = Append(Append(Append(requests, Opening("query", sump)),
                                          Opening("session", sump)),
                                   Opening("rules", sump))
             /\ \A op \in {"query", "session", "rules"} : Opening(op, sump) \in KnownCall
             /\ calm' \in BOOLEAN /\ (calm' => Still) /\ ruled' = FALSE
  <2>1. \A op \in {"query", "session", "rules"} : Opening(op, sump) \in KnownCall
    BY OpeningKnown
  <2>2. requests \in Seq(KnownCall)
    BY DEF Typed
  <2>3. calm' = Still /\ ruled' = FALSE
    BY <1>e DEF Effect
  <2>4. requests' = requests \o
          [i \in 1 .. 3 |-> [op |-> <<"query", "session", "rules">>[i], sump |-> sump,
                             arg |-> Null, live |-> TRUE]]
    BY <1>e DEF Effect
  <2>5. requests' = Append(Append(Append(requests, Opening("query", sump)),
                                  Opening("session", sump)),
                           Opening("rules", sump))
    BY <2>1, <2>2, <2>4, EffectAppends
  <2>6. calm' \in BOOLEAN /\ (calm' => Still)
    BY <2>3 DEF Still
  <2> QED
    BY <2>1, <2>3, <2>5, <2>6
<1>1. ASSUME NEW sump \in Sumps, OpenPage(sump)  PROVE Shows(sump)
  <2> DEFINE p == [sump |-> sump, phase |-> "loading", records |-> Null, session |-> Null,
                   notices |-> {}, rules |-> {}, alerts |-> Null]
  <2>1. page' = p /\ Effect(sump) /\ Acts /\ UNCHANGED <<working, replies, catalog>>
    BY <1>1 DEF OpenPage
  <2>2. p \in KnownPage
    BY DEF KnownPage, Page, KnownRules
  <2>3. page' \in KnownPage /\ page'.sump = sump /\ page'.phase = "loading"
          /\ page'.notices = {}
    BY <2>1, <2>2
  <2> QED
    BY <1>e, <2>1, <2>3, ActsType DEF Shows
<1>2. ASSUME NEW sump \in Sumps, SelectSump(sump)  PROVE Shows(sump)
  <2>1. /\ page # Null /\ sump # page.sump /\ Effect(sump) /\ Acts
        /\ UNCHANGED <<working, replies, catalog>>
        /\ page' = [page EXCEPT !.sump = sump, !.phase = "loading"]
    BY <1>2 DEF SelectSump
  <2>2. page \in KnownPage
    BY <2>1, PageShown
  <2>3. page' \in KnownPage /\ page'.sump = sump /\ page'.phase = "loading"
          /\ page'.notices = page.notices
    BY <2>1, <2>2 DEF KnownPage, Page
  <2> QED
    BY <1>e, <2>1, <2>3, ActsType DEF Shows
<1>3. CASE Refresh
  <2> DEFINE c == [op |-> "query", sump |-> page.sump, arg |-> Null, live |-> TRUE]
  <2>1. /\ page # Null /\ page' = [page EXCEPT !.phase = "loading"]
        /\ Asked("query", Null) /\ UNCHANGED calm
    BY <1>3 DEF Refresh, Clicked
  <2>3. c \in KnownCall
    BY <2>1, AskedKnown
  <2>4. /\ requests' = Append(requests, c) /\ acts' \in 0 .. MaxActs
        /\ UNCHANGED <<working, replies, catalog, ruled>>
    BY <2>1, ActsType DEF Asked
  <2>5. c.live /\ c.sump = page.sump /\ c.op = "query" /\ c.arg = Null
    OBVIOUS
  <2> HIDE DEF c
  <2>6. Asks(c)
    BY <2>1, <2>3, <2>4, <2>5 DEF Asks, OnShown, Typed
  <2> QED
    BY <2>3, <2>6
<1>4. ASSUME NEW op, NEW arg, page # Null, Clicked(op, arg), page' = page,
             \/ op \in {"start", "create"} /\ arg = Null
             \/ op = "dismiss" /\ arg \in page.notices
             \/ op \in {"enable", "disable", "delete"} /\ arg \in DOMAIN rules
      PROVE  \E c \in KnownCall : Asks(c)
  <2> DEFINE c == [op |-> op, sump |-> page.sump, arg |-> arg, live |-> TRUE]
  <2>1. Asked(op, arg) /\ UNCHANGED calm
    BY <1>4 DEF Clicked
  <2>2. arg \in page.notices => arg \in DOMAIN sessions
    BY <1>4, PageShown
  <2>3. c \in KnownCall
    BY <1>4, <2>2, AskedKnown
  <2>4. /\ requests' = Append(requests, c) /\ acts' \in 0 .. MaxActs
        /\ UNCHANGED <<working, replies, catalog, ruled>>
    BY <2>1, ActsType DEF Asked
  <2>5. c.live /\ c.sump = page.sump /\ c.op = op /\ c.arg = arg
    OBVIOUS
  <2> HIDE DEF c
  <2>6. Asks(c)
    BY <1>4, <2>1, <2>3, <2>4, <2>5 DEF Asks, OnShown, Typed
  <2> QED
    BY <2>3, <2>6
<1>5. ASSUME NEW op \in OnShown, page # Null, page.session # Null, ClickedSession(op)
      PROVE  \E c \in KnownCall : Asks(c)
  <2> DEFINE c == [op |-> op, sump |-> page.sump, arg |-> page.session.id, live |-> TRUE]
  <2>1. /\ Asked(op, page.session.id) /\ UNCHANGED page
        /\ calm' = (calm /\ page.session.sump = page.sump)
    BY <1>5 DEF ClickedSession
  <2>2. page.session.id \in DOMAIN sessions
    BY <1>5, PageShown
  <2>a. calm' \in BOOLEAN /\ (calm' => calm /\ page.session.sump = page.sump)
    BY <2>1
  <2>3. c \in KnownCall
    BY <1>5, <2>2, AskedKnown DEF OnShown
  <2>4. /\ requests' = Append(requests, c) /\ acts' \in 0 .. MaxActs
        /\ UNCHANGED <<working, replies, catalog, ruled>>
    BY <2>1, ActsType DEF Asked
  <2>5. c.live /\ c.sump = page.sump /\ c.op = op /\ c.arg = page.session.id
    OBVIOUS
  <2> HIDE DEF c
  <2>6. Asks(c)
    BY <1>5, <2>1, <2>a, <2>3, <2>4, <2>5 DEF Asks, OnShown
  <2> QED
    BY <2>3, <2>6
<1>6. CASE HandleStartSession
  BY <1>4, <1>6 DEF HandleStartSession
<1>7. CASE HandlePauseSession \/ HandleResumeSession \/ HandleStopSession
  BY <1>5, <1>7 DEF HandlePauseSession, HandleResumeSession, HandleStopSession, OnShown
<1>8. CASE HandleDismissInterrupted
  BY <1>4, <1>8 DEF HandleDismissInterrupted
<1>9. CASE HandleCreateRule
  BY <1>4, <1>9 DEF HandleCreateRule
<1>10. CASE HandleToggleRule
  <2>1. PICK rule \in page.rules :
          Clicked(IF rule[2] = "enabled" THEN "disable" ELSE "enable", rule[1])
    BY <1>10 DEF HandleToggleRule
  <2>2. page # Null /\ page' = page
    BY <1>10 DEF HandleToggleRule
  <2>3. rule[1] \in DOMAIN rules
    BY <2>1, <2>2, PageShown
  <2> QED
    BY <1>4, <2>1, <2>2, <2>3
<1>11. CASE HandleDeleteRule
  <2>1. PICK rule \in page.rules : Clicked("delete", rule[1])
    BY <1>11 DEF HandleDeleteRule
  <2>2. page # Null /\ page' = page
    BY <1>11 DEF HandleDeleteRule
  <2>3. rule[1] \in DOMAIN rules
    BY <2>1, <2>2, PageShown
  <2> QED
    BY <1>4, <2>1, <2>2, <2>3
<1> QED
  BY <1>1, <1>2, <1>3, <1>6, <1>7, <1>8, <1>9, <1>10, <1>11 DEF UserActs

\* The main process takes up a call that awaits, with a fresh copy of a row.
Takes(job) ==
    /\ requests # << >> /\ requests' = Tail(requests)
    /\ working' = Append(working, job)
    /\ job \in KnownJob /\ job.call = Head(requests)
    /\ job.row # Null => job.row = sessions[job.id]
    /\ UNCHANGED <<page, replies, catalog, history>>

\* It answers a call that awaits nothing.
Gives(r) ==
    /\ requests # << >> /\ requests' = Tail(requests)
    /\ r \in Answer' /\ r.call = Head(requests)
    /\ replies' = Append(replies, r)
    /\ UNCHANGED <<page, working, history>>
    /\ r.call.op \notin {"query", "evaluate"}
    /\ r.call.op \notin ChangeOps => UNCHANGED rules
    /\ r.call.op \in ChangeOps \cup {"session", "interrupted", "rules"} => UNCHANGED sessions
    /\ r.call.op = "session" => r.value = SummaryOf(sessions, ActiveSession(r.call.sump))
    /\ r.call.op = "interrupted" => r.value = {s \in DOMAIN sessions : sessions[s].notice}
    /\ r.call.op = "rules" => r.value = ListEventRulesForSump(r.call.sump)
    /\ r.call.op \in {"start", "resume", "pause", "stop"} =>
         /\ r.value # Null /\ r.value.status = sessions'[r.value.id].status
         /\ r.value.sump = r.call.sump \/ (r.value.id = r.call.arg /\ r.call.op \in OnShown)
    /\ r.call.op = "dismiss" =>
         /\ DOMAIN sessions' = DOMAIN sessions
         /\ \A s \in DOMAIN sessions : sessions'[s].status = sessions[s].status
    /\ \A s \in DOMAIN sessions :
         \/ sessions'[s].notice = sessions[s].notice
         \/ r.call.op = "dismiss" /\ r.call.arg = s

\* A handler that awaited is done.
Settles(i, r) ==
    /\ i \in DOMAIN working /\ working' = RemoveAt(working, i)
    /\ r \in Answer' /\ r.call = working[i].call
    /\ replies' = Append(replies, r)
    /\ UNCHANGED <<page, requests, rules, history>>
    /\ r.call.op \in {"query", "evaluate"} => UNCHANGED sessions
    /\ r.call.op \in {"pause", "stop"} =>
         /\ sessions' = [sessions EXCEPT ![working[i].id] = ClosedRow(working[i])]
         /\ r.value # Null /\ r.value.id = working[i].id
         /\ r.value.status = sessions'[r.value.id].status

\* An evaluation goes on.
Obeys(i, job) ==
    /\ i \in DOMAIN working /\ working' = [working EXCEPT ![i] = job]
    /\ job \in KnownJob /\ job.call = working[i].call
    /\ UNCHANGED <<page, requests, replies, rules, acts, calm>>
    /\ ruled' \in BOOLEAN
    /\ ruled' \/ (~ruled /\ UNCHANGED sessions)
    /\ job.row # Null => UNCHANGED sessions /\ job.row = sessions[job.id]
    /\ \A s \in DOMAIN sessions :
         \/ sessions'[s].notice = sessions[s].notice
         \/ /\ working[i].row # Null /\ working[i].id = s
            /\ sessions'[s].notice = working[i].row.notice

LEMMA JobOfKnown ==
    ASSUME NEW call \in KnownCall, call.op \in {"query", "evaluate"}
    PROVE  JobOf(call) \in KnownJob /\ JobOf(call).call = call /\ JobOf(call).row = Null
BY DEF JobOf, KnownJob, KnownCall, Job

LEMMA TakesMoves ==
    ASSUME Typed, QueryRecords \/ EvaluateEventRules
    PROVE  \E job \in KnownJob : Takes(job)
<1>0. requests # << >> /\ Head(requests).op \in {"query", "evaluate"}
  BY DEF QueryRecords, EvaluateEventRules, Reads
<1>h. Head(requests) \in KnownCall
  BY <1>0, HeadRequest
<1>1. CASE QueryRecords
  <2>1. Awaits(JobOf(Head(requests)))
    BY <1>1 DEF QueryRecords
  <2>2. /\ JobOf(Head(requests)) \in KnownJob /\ JobOf(Head(requests)).call = Head(requests)
        /\ JobOf(Head(requests)).row = Null
    BY <1>0, <1>h, JobOfKnown
  <2>3. Takes(JobOf(Head(requests)))
    BY <1>0, <2>1, <2>2 DEF Awaits, Takes
  <2> QED
    BY <2>2, <2>3
<1>2. CASE EvaluateEventRules
  <2>0. Head(requests).op = "evaluate"
    BY <1>2 DEF EvaluateEventRules, Reads
  <2>1. PICK fired \in SUBSET {r \in RulesOf(Head(requests).sump) : rules[r].state = "enabled"} :
          Awaits([JobOf(Head(requests)) EXCEPT !.todo = fired, !.fired = fired # {}])
    BY <1>2 DEF EvaluateEventRules
  <2> DEFINE job == [JobOf(Head(requests)) EXCEPT !.todo = fired, !.fired = fired # {}]
  <2>a. fired \in SUBSET DOMAIN rules /\ (fired # {}) \in BOOLEAN
    BY DEF RulesOf
  <2>2. job \in KnownJob /\ job.call = Head(requests) /\ job.row = Null
    <3>1. DOMAIN rules \subseteq RuleIds
      BY PageAssumption DEF Typed, RuleIds
    <3>2. Head(requests) \in Call
      BY <1>h DEF KnownCall
    <3> QED
      BY <1>h, <2>0, <2>a, <3>1, <3>2 DEF JobOf, KnownJob, Job
  <2>3. Awaits(job)
    BY <2>1
  <2> HIDE DEF job
  <2>4. Takes(job)
    BY <1>0, <2>2, <2>3 DEF Awaits, Takes
  <2> QED
    BY <2>2, <2>4
<1> QED
  BY <1>1, <1>2

\* An answer fits the catalog that the step leaves.
LEMMA AnswerNew ==
    ASSUME Grows, NEW c \in KnownCall, NEW v,
           \/ c.op = "query" /\ v \in {"some", "none", "failed"}
           \/ c.op = "evaluate" /\ v \in BOOLEAN
           \/ c.op \in SessionOps /\ v \in KnownSummary' \cup {Null}
           \/ c.op = "interrupted" /\ v \in SUBSET DOMAIN sessions'
           \/ c.op = "rules" /\ v \in KnownRules'
           \/ c.op \in ChangeOps \cup {"dismiss"} /\ v = Null
    PROVE  [call |-> c, value |-> v] \in Answer'
<1>1. c \in KnownCall'
  BY KnownGrows
<1>2. v \in ValueOf(c.op)'
  BY DEF ValueOf, SessionOps, ChangeOps
<1>3. Answer' = UNION {[call : {d}, value : ValueOf(d.op)'] : d \in KnownCall'}
  BY DEF Answer
<1> QED
  BY <1>1, <1>2, <1>3

LEMMA SummaryNew ==
    ASSUME Tables', NEW s \in DOMAIN sessions', NEW v, v = SummaryOf(sessions', s)
    PROVE  /\ v \in KnownSummary' /\ v # Null
           /\ v.id = s /\ v.sump = sessions'[s].sump /\ v.status = sessions'[s].status
<1>1. sessions' \in Seq(Row) /\ Len(sessions') <= MaxSessions
  BY DEF Tables
<1>2. s \in 1 .. Len(sessions') /\ Len(sessions') \in Nat /\ sessions'[s] \in Row
  BY <1>1
<1>3. s # Null /\ s \in SessionIds
  BY <1>1, <1>2, NullIsOther, PageAssumption DEF SessionIds
<1>4. v = [id |-> s, sump |-> sessions'[s].sump, status |-> sessions'[s].status]
  BY <1>3 DEF SummaryOf
<1>5. v \in Summary
  BY <1>2, <1>3, <1>4 DEF Summary, Row
<1>6. v.id = s /\ v.sump = sessions'[s].sump /\ v.status = sessions'[s].status
  BY <1>4
<1> QED
  BY <1>5, <1>6, NullIsOther DEF KnownSummary

LEMMA RulesListed ==
    ASSUME Typed, NEW sump
    PROVE  ListEventRulesForSump(sump) \in KnownRules
<1>1. \A r \in RulesOf(sump) : r \in DOMAIN rules /\ rules[r].state \in {"enabled", "disabled"}
  <2> TAKE r \in RulesOf(sump)
  <2>1. r \in DOMAIN rules /\ rules[r].state # "deleted"
    BY DEF RulesOf
  <2>2. rules[r] \in Rule
    BY <2>1 DEF Typed
  <2> QED
    BY <2>1, <2>2 DEF Rule
<1>2. \A x \in ListEventRulesForSump(sump) : x \in (DOMAIN rules) \X {"enabled", "disabled"}
  BY <1>1 DEF ListEventRulesForSump
<1> QED
  BY <1>2 DEF KnownRules

LEMMA ReadsMoves ==
    ASSUME Typed, Tables', Grows,
           \/ GetRecordingSession \/ GetInterruptedSessions \/ DismissInterruptedSession
           \/ ListEventRules \/ CreateEventRule \/ ChangeEventRule
    PROVE  \E r : Gives(r)
<1>0. requests # << >>
  BY DEF GetRecordingSession, GetInterruptedSessions, DismissInterruptedSession,
     ListEventRules, CreateEventRule, ChangeEventRule, Reads
<1> DEFINE c == Head(requests)
<1>h. c \in KnownCall /\ c.sump \in Sumps
  BY <1>0, HeadRequest DEF Call
<1>g. ASSUME NEW v, Answers(v),
             \/ c.op \in SessionOps /\ v \in KnownSummary' \cup {Null}
             \/ c.op = "interrupted" /\ v \in SUBSET DOMAIN sessions'
             \/ c.op = "rules" /\ v \in KnownRules'
             \/ c.op \in ChangeOps \cup {"dismiss"} /\ v = Null
      PROVE  \E r : /\ requests' = Tail(requests) /\ r \in Answer'
                    /\ r.call = c /\ r.value = v
                    /\ replies' = Append(replies, r) /\ UNCHANGED <<page, working, history>>
  <2>1. \A d \in KnownCall : d = c => [call |-> d, value |-> v] \in Answer'
    <3> SUFFICES ASSUME NEW d \in KnownCall, d = c
                 PROVE  [call |-> d, value |-> v] \in Answer'
      OBVIOUS
    <3> QED
      BY <1>g, AnswerNew
  <2>2. [call |-> c, value |-> v] \in Answer'
    BY <1>h, <2>1
  <2> QED
    BY <1>0, <1>g, <2>2 DEF Answers
<1>s. sessions \in Seq(Row)
  BY DEF Typed
<1>1. CASE GetRecordingSession
  <2> DEFINE v == SummaryOf(sessions, ActiveSession(c.sump))
  <2>1. Answers(v) /\ UNCHANGED catalog /\ c.op = "session"
    BY <1>1 DEF GetRecordingSession, Reads
  <2>2. v \in KnownSummary' \cup {Null}
    <3>1. CASE Active(c.sump) = {}
      BY <1>s, <3>1, ActiveFacts DEF SummaryOf
    <3>2. CASE Active(c.sump) # {}
      <4>1. ActiveSession(c.sump) \in DOMAIN sessions'
        BY <1>s, <2>1, <3>2, ActiveFacts DEF catalog
      <4>2. v = SummaryOf(sessions', ActiveSession(c.sump))
        BY <2>1 DEF catalog, SummaryOf
      <4> QED
        BY <4>1, <4>2, SummaryNew
    <3> QED
      BY <3>1, <3>2
  <2> HIDE DEF v
  <2>3. PICK r : /\ requests' = Tail(requests) /\ r \in Answer'
                 /\ r.call = c /\ r.value = v
                 /\ replies' = Append(replies, r) /\ UNCHANGED <<page, working, history>>
    BY <1>g, <2>1, <2>2 DEF SessionOps
  <2>4. Gives(r)
    BY <1>0, <2>1, <2>3 DEF Gives, ChangeOps, catalog, v
  <2> QED
    BY <2>4
<1>2. CASE GetInterruptedSessions
  <2> DEFINE v == {s \in DOMAIN sessions : sessions[s].notice}
  <2>1. Answers(v) /\ UNCHANGED catalog /\ c.op = "interrupted"
    BY <1>2 DEF GetInterruptedSessions, Reads
  <2>2. v \in SUBSET DOMAIN sessions'
    BY <2>1 DEF catalog
  <2> HIDE DEF v
  <2>3. PICK r : /\ requests' = Tail(requests) /\ r \in Answer'
                 /\ r.call = c /\ r.value = v
                 /\ replies' = Append(replies, r) /\ UNCHANGED <<page, working, history>>
    BY <1>g, <2>1, <2>2
  <2>4. Gives(r)
    BY <1>0, <2>1, <2>3 DEF Gives, ChangeOps, catalog, v
  <2> QED
    BY <2>4
<1>3. CASE DismissInterruptedSession
  <2>1. /\ Answers(Null) /\ UNCHANGED rules /\ c.op = "dismiss"
        /\ sessions' = [sessions EXCEPT ![c.arg].notice = FALSE]
    BY <1>3 DEF DismissInterruptedSession, Reads
  <2>2. c.arg \in DOMAIN sessions
    BY <1>h, <2>1 DEF KnownCall
  <2>3. PICK r : /\ requests' = Tail(requests) /\ r \in Answer'
                 /\ r.call = c /\ r.value = Null
                 /\ replies' = Append(replies, r) /\ UNCHANGED <<page, working, history>>
    BY <1>g, <2>1
  <2>4. /\ DOMAIN sessions' = DOMAIN sessions
        /\ \A s \in DOMAIN sessions : sessions'[s].status = sessions[s].status
        /\ \A s \in DOMAIN sessions : sessions'[s].notice = sessions[s].notice \/ c.arg = s
    <3>1. \A s \in DOMAIN sessions : sessions[s] \in Row
      BY <1>s
    <3> QED
      BY <2>1, <2>2, <3>1 DEF Row
  <2>5. Gives(r)
    BY <1>0, <2>1, <2>3, <2>4 DEF Gives, ChangeOps, OnShown
  <2> QED
    BY <2>5
<1>4. CASE ListEventRules
  <2> DEFINE v == ListEventRulesForSump(c.sump)
  <2>1. Answers(v) /\ UNCHANGED catalog /\ c.op = "rules"
    BY <1>4 DEF ListEventRules, Reads
  <2>2. v \in KnownRules'
    BY KnownGrows, RulesListed
  <2> HIDE DEF v
  <2>3. PICK r : /\ requests' = Tail(requests) /\ r \in Answer'
                 /\ r.call = c /\ r.value = v
                 /\ replies' = Append(replies, r) /\ UNCHANGED <<page, working, history>>
    BY <1>g, <2>1, <2>2
  <2>4. Gives(r)
    BY <1>0, <2>1, <2>3 DEF Gives, ChangeOps, catalog, v
  <2> QED
    BY <2>4
<1>5. CASE CreateEventRule \/ ChangeEventRule
  <2>1. Answers(Null) /\ UNCHANGED sessions /\ c.op \in ChangeOps
    BY <1>5 DEF CreateEventRule, ChangeEventRule, Reads, ChangeOps
  <2>2. PICK r : /\ requests' = Tail(requests) /\ r \in Answer'
                 /\ r.call = c /\ r.value = Null
                 /\ replies' = Append(replies, r) /\ UNCHANGED <<page, working, history>>
    BY <1>g, <2>1
  <2>3. Gives(r)
    BY <1>0, <2>1, <2>2 DEF Gives, ChangeOps
  <2> QED
    BY <2>3
<1> QED
  BY <1>1, <1>2, <1>3, <1>4, <1>5

LEMMA SessionMoves ==
    ASSUME Typed, Tables', Grows,
           StartRecordingSession \/ ResumeRecordingSession \/ CloseRecordingSession
    PROVE  (\E r : Gives(r)) \/ (\E job \in KnownJob : Takes(job))
<1>0. requests # << >>
  BY DEF StartRecordingSession, ResumeRecordingSession, CloseRecordingSession, Reads
<1> DEFINE c == Head(requests)
<1>h. c \in KnownCall /\ c \in Call /\ c.sump \in Sumps
  BY <1>0, HeadRequest DEF Call
<1>s. sessions \in Seq(Row) /\ Len(sessions) <= MaxSessions /\ Len(sessions) \in Nat
  BY DEF Typed
<1>g. ASSUME c.op \in {"start", "resume", "pause", "stop"},
             NEW s \in DOMAIN sessions',
             requests' = Tail(requests), UNCHANGED <<page, working, history>>,
             replies' = Append(replies, [call |-> c, value |->
                 [id |-> s, sump |-> sessions'[s].sump, status |-> sessions'[s].status]]),
             UNCHANGED rules, sessions'[s].sump = c.sump \/ (s = c.arg /\ c.op \in OnShown),
             \A t \in DOMAIN sessions : sessions'[t].notice = sessions[t].notice
      PROVE  \E r : Gives(r)
  <2> DEFINE v == [id |-> s, sump |-> sessions'[s].sump, status |-> sessions'[s].status]
             r == [call |-> c, value |-> v]
  <2>1. s # Null
    <3>1. sessions' \in Seq(Row)
      BY DEF Tables
    <3> QED
      BY <1>g, <3>1, NullIsOther
  <2>2. v = SummaryOf(sessions', s)
    BY <2>1 DEF SummaryOf
  <2>3. v \in KnownSummary' /\ v # Null
    <3> SUFFICES ASSUME NEW w, w = SummaryOf(sessions', s)  PROVE w \in KnownSummary' /\ w # Null
      BY <2>2
    <3> QED
      BY <1>g, SummaryNew
  <2>4. r \in Answer'
    <3> SUFFICES ASSUME NEW d \in KnownCall, d = c, NEW w \in KnownSummary'
                 PROVE  [call |-> d, value |-> w] \in Answer'
      BY <1>h, <2>3
    <3> QED
      BY <1>g, AnswerNew DEF SessionOps
  <2>5. /\ r.call = c /\ r.value = v /\ v.id = s /\ v.sump = sessions'[s].sump
        /\ v.status = sessions'[s].status
    OBVIOUS
  <2>6. replies' = Append(replies, r)
    BY <1>g
  <2> HIDE DEF r, v
  <2>7. Gives(r)
    BY <1>0, <1>g, <2>3, <2>4, <2>5, <2>6 DEF Gives, ChangeOps
  <2> QED
    BY <2>7
<1>1. CASE StartRecordingSession
  <2>1. /\ c.op = "start" /\ sessions' = Begun(c.sump) /\ UNCHANGED rules
        /\ Active(c.sump) = {} => Len(sessions) < MaxSessions
    BY <1>1 DEF StartRecordingSession, Reads
  <2> DEFINE s == IF Active(c.sump) = {} THEN Len(sessions') ELSE ActiveSession(c.sump)
  <2>2. /\ requests' = Tail(requests) /\ UNCHANGED <<page, working, history>>
        /\ replies' = Append(replies, [call |-> c, value |-> SummaryOf(sessions', s)])
    BY <1>1 DEF StartRecordingSession, Answers
  <2>3. /\ s \in DOMAIN sessions' /\ s # Null /\ sessions'[s].sump = c.sump
        /\ \A t \in DOMAIN sessions : sessions'[t] = sessions[t]
    <3> DEFINE b == Begun(c.sump)
    <3>1. /\ b \in Seq(Row)
          /\ Active(c.sump) # {} => b = sessions
          /\ Active(c.sump) = {} =>
               /\ Len(b) = Len(sessions) + 1
               /\ b[Len(sessions) + 1].sump = c.sump
          /\ DOMAIN sessions \subseteq DOMAIN b
          /\ \A t \in DOMAIN sessions : b[t] = sessions[t]
      <4> SUFFICES ASSUME NEW d \in Sumps, d = c.sump
                   PROVE  /\ Begun(d) \in Seq(Row)
                          /\ Active(d) # {} => Begun(d) = sessions
                          /\ Active(d) = {} =>
                               /\ Len(Begun(d)) = Len(sessions) + 1
                               /\ Begun(d)[Len(sessions) + 1].sump = d
                          /\ DOMAIN sessions \subseteq DOMAIN Begun(d)
                          /\ \A t \in DOMAIN sessions : Begun(d)[t] = sessions[t]
        BY <1>h
      <4>1. Active(d) = {} => Len(sessions) < MaxSessions
        BY <2>1
      <4>2. Active(d) = {} =>
              /\ Len(Begun(d)) = Len(sessions) + 1
              /\ Begun(d)[Len(sessions) + 1]
                   = [sump |-> d, status |-> "recording", notice |-> FALSE]
        BY <4>1, BegunFacts
      <4> QED
        BY <4>1, <4>2, BegunFacts
    <3>2. CASE Active(c.sump) = {}
      <4>1. s = Len(b)
        BY <2>1, <3>2
      <4>2. Len(b) = Len(sessions) + 1 /\ b[Len(sessions) + 1].sump = c.sump
        BY <3>1, <3>2
      <4> HIDE DEF s, b
      <4>3. Len(b) \in DOMAIN b /\ Len(b) \in Nat
        BY <1>s, <3>1, <4>2
      <4> QED
        BY <2>1, <3>1, <4>1, <4>2, <4>3, NullIsOther DEF b
    <3>3. CASE Active(c.sump) # {}
      <4>1. s = ActiveSession(c.sump) /\ s \in Active(c.sump) /\ s # Null
        BY <1>s, <3>3, ActiveFacts
      <4> QED
        BY <1>s, <2>1, <3>1, <3>3, <4>1, ActiveFacts
    <3> QED
      BY <3>2, <3>3
  <2>4. SummaryOf(sessions', s) =
          [id |-> s, sump |-> sessions'[s].sump, status |-> sessions'[s].status]
    <3> HIDE DEF s
    <3> QED
      BY <2>3 DEF SummaryOf
  <2>5. \E t \in DOMAIN sessions' :
          /\ sessions'[t].sump = c.sump
          /\ replies' = Append(replies, [call |-> c, value |->
               [id |-> t, sump |-> sessions'[t].sump, status |-> sessions'[t].status]])
    <3> HIDE DEF s
    <3> QED
      BY <2>2, <2>3, <2>4
  <2>6. \A t \in DOMAIN sessions : sessions'[t].notice = sessions[t].notice
    BY <2>3
  <2>7. PICK t \in DOMAIN sessions' :
          /\ sessions'[t].sump = c.sump
          /\ replies' = Append(replies, [call |-> c, value |->
               [id |-> t, sump |-> sessions'[t].sump, status |-> sessions'[t].status]])
    BY <2>5
  <2>8. c.op \in {"start", "resume", "pause", "stop"}
    BY <2>1
  <2>9. requests' = Tail(requests) /\ UNCHANGED <<page, working, history>> /\ UNCHANGED rules
    BY <2>1, <2>2
  <2> QED
    BY <1>g, <2>6, <2>7, <2>8, <2>9
<1>2. CASE ResumeRecordingSession
  <2> DEFINE s == c.arg
  <2>1. /\ c.op = "resume" /\ UNCHANGED rules
        /\ sessions' = [sessions EXCEPT ![s].status = IF @ = "paused" THEN "recording" ELSE @]
    BY <1>2 DEF ResumeRecordingSession, Reads
  <2>2. /\ requests' = Tail(requests) /\ UNCHANGED <<page, working, history>>
        /\ replies' = Append(replies, [call |-> c, value |-> SummaryOf(sessions', s)])
    BY <1>2 DEF ResumeRecordingSession, Answers
  <2>3. s \in DOMAIN sessions /\ s \in DOMAIN sessions' /\ s # Null
    BY <1>h, <1>s, <2>1, NullIsOther DEF KnownCall
  <2>4. \A t \in DOMAIN sessions : sessions'[t].notice = sessions[t].notice
    <3>1. \A t \in DOMAIN sessions : sessions[t] \in Row
      BY <1>s
    <3> QED
      BY <2>1, <2>3, <3>1 DEF Row
  <2>5. SummaryOf(sessions', s) =
          [id |-> s, sump |-> sessions'[s].sump, status |-> sessions'[s].status]
    BY <2>3 DEF SummaryOf
  <2> QED
    BY <1>g, <2>1, <2>2, <2>3, <2>4, <2>5 DEF OnShown
<1>3. CASE CloseRecordingSession
  <2> DEFINE s == c.arg
  <2>0. c.op \in {"pause", "stop"} /\ s \in DOMAIN sessions /\ s # Null
    BY <1>3, <1>h, <1>s, NullIsOther DEF CloseRecordingSession, Reads, KnownCall
  <2>a. sessions[s] \in Row
    BY <1>s, <2>0
  <2>1. CASE sessions[s].status = "recording"
    <3> DEFINE job == [JobOf(c) EXCEPT !.id = s, !.row = sessions[s]]
    <3>1. Awaits(job)
      BY <1>3, <2>1 DEF CloseRecordingSession
    <3>2. s \in SessionIds
      BY <1>s, <2>0, PageAssumption DEF SessionIds
    <3>3. job \in Job /\ job.call = c /\ job.id = s /\ job.row = sessions[s] /\ job.todo = {}
      BY <1>h, <2>a, <3>2 DEF Job, JobOf
    <3> HIDE DEF job
    <3>5. job \in KnownJob
      BY <1>h, <2>0, <2>a, <3>3, NullIsOther DEF KnownJob
    <3>6. Takes(job)
      BY <1>0, <3>1, <3>3, <3>5 DEF Awaits, Takes
    <3> QED
      BY <3>5, <3>6
  <2>2. CASE sessions[s].status # "recording"
    <3>1. /\ sessions' = [sessions EXCEPT ![s].status = IF c.op = "stop" THEN "stopped" ELSE @]
          /\ UNCHANGED rules
          /\ requests' = Tail(requests) /\ UNCHANGED <<page, working, history>>
          /\ replies' = Append(replies, [call |-> c, value |-> SummaryOf(sessions', s)])
      BY <1>3, <2>2 DEF CloseRecordingSession, Answers
    <3>2. s \in DOMAIN sessions'
      BY <2>0, <3>1
    <3>3. \A t \in DOMAIN sessions : sessions'[t].notice = sessions[t].notice
      <4>1. \A t \in DOMAIN sessions : sessions[t] \in Row
        BY <1>s
      <4> QED
        BY <2>0, <3>1, <4>1 DEF Row
    <3>4. SummaryOf(sessions', s) =
            [id |-> s, sump |-> sessions'[s].sump, status |-> sessions'[s].status]
      BY <2>0 DEF SummaryOf
    <3> QED
      BY <1>g, <2>0, <3>1, <3>2, <3>3, <3>4 DEF OnShown
  <2> QED
    BY <2>1, <2>2
<1> QED
  BY <1>1, <1>2, <1>3

LEMMA SettlesMoves ==
    ASSUME Typed, Tables', Grows, NEW i \in DOMAIN working, MainSettles(i)
    PROVE  (\E r : Settles(i, r)) \/ (\E job \in KnownJob : Obeys(i, job))
<1> DEFINE job == working[i]
           c == job.call
<1>j. job \in KnownJob /\ job \in Job /\ c \in KnownCall /\ c \in Call
  BY WorkingJob DEF KnownCall
<1>s. /\ sessions \in Seq(Row) /\ Len(sessions) <= MaxSessions /\ Len(sessions) \in Nat
      /\ working \in Seq(KnownJob)
  BY DEF Typed
<1>1. CASE SettleQuery(i)
  <2>1. PICK v \in {"some", "none", "failed"} :
          /\ working' = RemoveAt(working, i)
          /\ replies' = Append(replies, [call |-> c, value |-> v])
    BY <1>1 DEF SettleQuery, Done
  <2>2. c.op = "query" /\ UNCHANGED <<page, requests, catalog, history>>
    BY <1>1 DEF SettleQuery
  <2> DEFINE r == [call |-> c, value |-> v]
  <2>3. r \in Answer'
    <3> SUFFICES ASSUME NEW d \in KnownCall, d = c  PROVE [call |-> d, value |-> v] \in Answer'
      BY <1>j
    <3> QED
      BY <2>2, AnswerNew
  <2>4. r.call = c /\ replies' = Append(replies, r)
    BY <2>1
  <2> HIDE DEF r
  <2>5. Settles(i, r)
    BY <2>1, <2>2, <2>3, <2>4 DEF Settles, catalog
  <2> QED
    BY <2>5
<1>2. CASE SettleClose(i)
  <2>1. /\ c.op \in {"pause", "stop"} /\ UNCHANGED <<page, requests, rules, history>>
        /\ sessions' = [sessions EXCEPT ![job.id] = ClosedRow(job)]
        /\ working' = RemoveAt(working, i)
        /\ replies' = Append(replies, [call |-> c, value |-> SummaryOf(sessions', job.id)])
    BY <1>2 DEF SettleClose, Done
  <2>2. job.id \in DOMAIN sessions'
    BY <1>j, <2>1 DEF KnownJob
  <2>3. PICK v : v = SummaryOf(sessions', job.id)
    OBVIOUS
  <2>4. /\ v \in KnownSummary' /\ v # Null /\ v.id = job.id
        /\ v.status = sessions'[v.id].status
    <3> SUFFICES ASSUME NEW s \in DOMAIN sessions', v = SummaryOf(sessions', s), s = job.id
                 PROVE  /\ v \in KnownSummary' /\ v # Null /\ v.id = s
                        /\ v.status = sessions'[v.id].status
      BY <2>2, <2>3
    <3> QED
      BY SummaryNew
  <2> DEFINE r == [call |-> c, value |-> v]
  <2>5. r \in Answer'
    <3> SUFFICES ASSUME NEW d \in KnownCall, d = c  PROVE [call |-> d, value |-> v] \in Answer'
      BY <1>j
    <3> QED
      BY <2>1, <2>4, AnswerNew DEF SessionOps
  <2>6. r.call = c /\ r.value = v /\ replies' = Append(replies, r)
    BY <2>1, <2>3
  <2> HIDE DEF r
  <2>7. Settles(i, r)
    BY <2>1, <2>4, <2>5, <2>6 DEF Settles
  <2> QED
    BY <2>7
<1>3. CASE EvaluationGoesOn(i)
  <2> DEFINE rule == rules[Max(job.todo)]
             s == ActiveSession(c.sump)
             shorter == job.todo \ {Max(job.todo)}
             rest == [working EXCEPT ![i].todo = shorter]
             less == [job EXCEPT !.todo = shorter]
  <2>0. c.op = "evaluate" /\ UNCHANGED <<page, requests, rules, acts, calm>>
    BY <1>3 DEF EvaluationGoesOn
  <2>t. ruled \in BOOLEAN
    BY DEF Typed
  <2>a. rest = [working EXCEPT ![i] = less]
    OBVIOUS
  <2>b. /\ less \in KnownJob /\ less.call = c /\ less.row = job.row /\ less.id = job.id
    BY <1>j DEF KnownJob, Job
  <2>c. c.sump \in Sumps /\ (s # Null => s \in DOMAIN sessions /\ sessions[s].sump = c.sump)
    BY <1>j, <1>s, ActiveFacts DEF Call
  <2>u. \A t \in DOMAIN sessions : sessions[t] \in Row
    BY <1>s
  <2>1. CASE /\ job.row # Null
             /\ sessions' = [sessions EXCEPT ![job.id] = ClosedRow(job)]
             /\ working' = [working EXCEPT ![i].id = Null, ![i].row = Null]
             /\ ruled' = TRUE
             /\ UNCHANGED replies
    <3> DEFINE next == [job EXCEPT !.id = Null, !.row = Null]
    <3>1. working' = [working EXCEPT ![i] = next]
      BY <1>s, <2>1
    <3>2. next \in KnownJob /\ next.call = c /\ next.row = Null
      BY <1>j, <2>0 DEF KnownJob, Job
    <3>3. \A t \in DOMAIN sessions :
            \/ sessions'[t].notice = sessions[t].notice
            \/ job.id = t /\ sessions'[t].notice = job.row.notice
      BY <1>j, <2>1, ClosedRowFacts
    <3> HIDE DEF next
    <3>4. Obeys(i, next)
      BY <2>0, <2>1, <3>1, <3>2, <3>3 DEF Obeys
    <3> QED
      BY <3>2, <3>4
  <2>2. CASE /\ sessions' = Begun(c.sump) /\ (s = Null => Len(sessions) < MaxSessions)
             /\ ruled' = (ruled \/ s = Null)
             /\ job.row = Null /\ working' = rest /\ UNCHANGED replies
    <3>1. s = Null <=> Active(c.sump) = {}
      BY <1>s, ActiveFacts
    <3>2. /\ Active(c.sump) # {} => sessions' = sessions
          /\ \A t \in DOMAIN sessions : sessions'[t] = sessions[t]
      <4> SUFFICES ASSUME NEW d \in Sumps, d = c.sump
                   PROVE  /\ Active(d) # {} => Begun(d) = sessions
                          /\ \A t \in DOMAIN sessions : Begun(d)[t] = sessions[t]
        BY <2>2, <2>c
      <4>1. Active(d) = {} => Len(sessions) < MaxSessions
        BY <2>2, <3>1
      <4> QED
        BY <4>1, BegunFacts
    <3>3. ruled' \in BOOLEAN /\ (ruled' \/ (~ruled /\ UNCHANGED sessions))
      BY <2>t, <2>2, <3>1, <3>2
    <3> HIDE DEF less, rest
    <3>4. Obeys(i, less)
      BY <2>0, <2>2, <2>a, <2>b, <3>2, <3>3 DEF Obeys
    <3> QED
      BY <2>b, <3>4
  <2>3. CASE /\ s # Null /\ sessions[s].status = "recording"
             /\ working' = [rest EXCEPT ![i].id = s, ![i].row = sessions[s]]
             /\ UNCHANGED <<sessions, ruled, replies>>
    <3> DEFINE next == [less EXCEPT !.id = s, !.row = sessions[s]]
    <3>1. working' = [working EXCEPT ![i] = next]
      <4> HIDE DEF less, s
      <4> QED
        BY <1>s, <2>3, <2>a
    <3>a. s \in SessionIds
      BY <1>s, <2>3, <2>c, PageAssumption DEF SessionIds
    <3>b. s \in DOMAIN sessions /\ sessions[s].sump = c.sump /\ sessions[s] \in Row
      BY <2>3, <2>c, <2>u
    <3>2. /\ next \in KnownJob /\ next.call = c /\ next.row = sessions[s] /\ next.id = s
      <4> HIDE DEF less, s
      <4> QED
        BY <2>b, <2>0, <3>a, <3>b DEF KnownJob, Job
    <3> HIDE DEF next, s
    <3>3. Obeys(i, next)
      BY <2>0, <2>3, <2>t, <3>1, <3>2 DEF Obeys
    <3> QED
      BY <3>2, <3>3
  <2>4. CASE /\ s # Null /\ sessions' = [sessions EXCEPT ![s].status = "stopped"]
             /\ job.row = Null /\ working' = rest /\ ruled' = TRUE /\ UNCHANGED replies
    <3>1. \A t \in DOMAIN sessions : sessions'[t].notice = sessions[t].notice
      <4> HIDE DEF s
      <4> QED
        BY <2>4, <2>c, <2>u DEF Row
    <3> HIDE DEF less, rest
    <3>2. Obeys(i, less)
      BY <2>0, <2>4, <2>a, <2>b, <3>1 DEF Obeys
    <3> QED
      BY <2>b, <3>2
  <2>5. CASE job.row = Null /\ working' = rest /\ UNCHANGED <<sessions, replies, ruled>>
    <3> HIDE DEF less, rest
    <3>2. Obeys(i, less)
      BY <2>0, <2>5, <2>a, <2>b, <2>t DEF Obeys
    <3> QED
      BY <2>b, <3>2
  <2>6. CASE Done(i, job.fired) /\ UNCHANGED <<sessions, ruled>>
    <3> DEFINE r == [call |-> c, value |-> job.fired]
    <3>1. job.fired \in BOOLEAN
      BY <1>j DEF Job
    <3>2. r \in Answer'
      <4> SUFFICES ASSUME NEW d \in KnownCall, d = c, NEW v \in BOOLEAN
                   PROVE  [call |-> d, value |-> v] \in Answer'
        BY <1>j, <3>1
      <4> QED
        BY <2>0, AnswerNew
    <3>3. r.call = c /\ replies' = Append(replies, r) /\ working' = RemoveAt(working, i)
      BY <2>6 DEF Done
    <3> HIDE DEF r
    <3>4. Settles(i, r)
      BY <2>0, <2>6, <3>2, <3>3 DEF Settles, history
    <3> QED
      BY <3>4
  <2> QED
    BY <1>3, <2>1, <2>2, <2>3, <2>4, <2>5, <2>6 DEF EvaluationGoesOn
<1> QED
  BY <1>1, <1>2, <1>3 DEF MainSettles

\* The page reads an answer: what it shows then, and what it asks for next.
Hears(r) ==
    /\ replies # << >> /\ replies' = Tail(replies)
    /\ r \in Answer /\ r = Head(replies)
    /\ UNCHANGED <<working, catalog, history>>
    /\ ~r.call.live => UNCHANGED page
    /\ r.call.live =>
         /\ page # Null /\ page' \in KnownPage /\ page'.sump = page.sump
         /\ r.call.op = "query" =>
              page'.phase \in {"ready", "error"}
              /\ (page'.phase = "ready" => page'.records = r.call.sump)
         /\ r.call.op # "query" => page'.phase = page.phase /\ page'.records = page.records
         /\ page'.session = IF r.call.op \in SessionOps THEN r.value ELSE page.session
         /\ r.call.op = "interrupted" =>
              page'.notices = {s \in r.value : sessions[s].sump = r.call.sump}
         /\ r.call.op = "dismiss" => page'.notices = page.notices \ {r.call.arg}
         /\ r.call.op \notin {"interrupted", "dismiss"} => page'.notices = page.notices
         /\ page'.rules = IF r.call.op = "rules" THEN r.value ELSE page.rules
    /\ \/ UNCHANGED requests /\ r.call.op \notin ChangeOps \cup {"session"}
       \/ \E d \in KnownCall :
            /\ requests' = Append(requests, d)
            /\ d.live = r.call.live /\ d.sump = r.call.sump
            /\ \/ r.call.op = "query" /\ d.op = "evaluate"
               \/ r.call.op = "session" /\ d.op = "interrupted"
               \/ r.call.op \in ChangeOps /\ d.op = "rules"

LEMMA ReceiveMoves ==
    ASSUME Typed, Receive
    PROVE  \E r \in Answer : Hears(r)
<1> DEFINE r == Head(replies)
<1>1. /\ replies # << >> /\ replies' = Tail(replies) /\ UNCHANGED <<working, catalog, history>>
      /\ page' = IF r.call.live THEN Shown(r.call, r.value) ELSE page
      /\ requests' = requests \o Follows(r.call, r.value)
  BY DEF Receive
<1>2. r \in Answer /\ 1 \in DOMAIN replies /\ r = replies[1]
  BY <1>1, HeadOf DEF Typed
<1>3. /\ r.call \in KnownCall /\ r.value \in ValueOf(r.call.op)
  BY <1>2, AnswerOf
<1>4. PICK c : c = r.call
  OBVIOUS
<1>5. PICK v : v = r.value
  OBVIOUS
<1>6. c \in KnownCall /\ c \in Call /\ v \in ValueOf(c.op)
  BY <1>3, <1>4, <1>5 DEF KnownCall
<1>7. \/ requests' = requests /\ c.op \notin ChangeOps \cup {"session"}
      \/ \E d \in KnownCall :
            /\ requests' = Append(requests, d)
            /\ d.live = c.live /\ d.sump = c.sump
            /\ \/ c.op = "query" /\ d.op = "evaluate"
               \/ c.op = "session" /\ d.op = "interrupted"
               \/ c.op \in ChangeOps /\ d.op = "rules"
  <2>1. \A d \in KnownCall : requests \o <<d>> = Append(requests, d)
    BY DEF Typed
  <2>2. requests \o << >> = requests
    BY DEF Typed
  <2>3. requests' = requests \o Follows(c, v)
    BY <1>1, <1>4, <1>5
  <2>4. CASE c.op = "query" /\ v = "some"
    <3>1. [c EXCEPT !.op = "evaluate"] \in KnownCall
      BY <1>6, <2>4 DEF KnownCall, Call
    <3>2. Follows(c, v) = <<[c EXCEPT !.op = "evaluate"]>>
      BY <2>4 DEF Follows
    <3> QED
      BY <1>6, <2>1, <2>3, <2>4, <3>1, <3>2 DEF Call
  <2>5. CASE c.op = "session"
    <3>1. [c EXCEPT !.op = "interrupted"] \in KnownCall
      BY <1>6, <2>5 DEF KnownCall, Call
    <3>2. Follows(c, v) = <<[c EXCEPT !.op = "interrupted"]>>
      BY <2>5 DEF Follows
    <3> QED
      BY <1>6, <2>1, <2>3, <2>5, <3>1, <3>2 DEF Call
  <2>6. CASE c.op \in ChangeOps
    <3>1. [c EXCEPT !.op = "rules", !.arg = Null] \in KnownCall
      BY <1>6, <2>6 DEF KnownCall, Call
    <3>2. Follows(c, v) = <<[c EXCEPT !.op = "rules", !.arg = Null]>>
      BY <2>6 DEF Follows, ChangeOps
    <3> QED
      BY <1>6, <2>1, <2>3, <2>6, <3>1, <3>2 DEF Call
  <2>7. CASE ~(c.op = "query" /\ v = "some") /\ c.op \notin ChangeOps \cup {"session"}
    <3>1. Follows(c, v) = << >>
      BY <2>7 DEF Follows, ChangeOps
    <3> QED
      BY <2>2, <2>3, <2>7, <3>1
  <2> QED
    BY <2>4, <2>5, <2>6, <2>7
<1>8. ASSUME c.live
      PROVE  /\ page # Null /\ page' \in KnownPage /\ page'.sump = page.sump
             /\ c.op = "query" =>
                  page'.phase \in {"ready", "error"}
                  /\ (page'.phase = "ready" => page'.records = c.sump)
             /\ c.op # "query" => page'.phase = page.phase /\ page'.records = page.records
             /\ page'.session = IF c.op \in SessionOps THEN v ELSE page.session
             /\ c.op = "interrupted" =>
                  page'.notices = {s \in v : sessions[s].sump = c.sump}
             /\ c.op = "dismiss" => page'.notices = page.notices \ {c.arg}
             /\ c.op \notin {"interrupted", "dismiss"} => page'.notices = page.notices
             /\ page'.rules = IF c.op = "rules" THEN v ELSE page.rules
  <2>1. page # Null
    BY <1>2, <1>4, <1>8 DEF Typed, Unheard
  <2>2. page \in KnownPage /\ page \in Page
    BY <2>1, PageShown
  <2>3. page' = Shown(c, v)
    BY <1>1, <1>4, <1>5, <1>8
  <2>s. c.sump \in Sumps
    BY <1>6 DEF Call
  <2>4. CASE c.op = "query"
    <3>1. CASE v = "failed"
      <4>1. page' = [page EXCEPT !.phase = "error"]
        BY <2>3, <2>4, <3>1 DEF Shown
      <4> QED
        BY <2>1, <2>2, <2>4, <4>1 DEF KnownPage, Page, SessionOps
    <3>2. CASE v # "failed"
      <4>1. page' = [page EXCEPT !.phase = "ready", !.records = c.sump]
        BY <2>3, <2>4, <3>2 DEF Shown
      <4> QED
        BY <2>1, <2>2, <2>4, <2>s, <4>1 DEF KnownPage, Page, SessionOps
    <3> QED
      BY <3>1, <3>2
  <2>5. CASE c.op = "evaluate"
    <3>1. PICK sump \in Sumps \cup {Null} : page' = [page EXCEPT !.alerts = sump]
      BY <2>3, <2>5, <2>s DEF Shown
    <3> QED
      BY <2>1, <2>2, <2>5, <3>1 DEF KnownPage, Page, SessionOps
  <2>6. CASE c.op \in SessionOps
    <3>1. page' = [page EXCEPT !.session = v]
      BY <2>3, <2>6 DEF Shown, SessionOps
    <3>2. v \in KnownSummary \cup {Null} /\ v \in Summary \cup {Null}
      BY <1>6, <2>6 DEF ValueOf, KnownSummary, SessionOps
    <3> QED
      BY <2>1, <2>2, <2>6, <3>1, <3>2 DEF KnownPage, Page, SessionOps
  <2>7. CASE c.op \in {"interrupted", "dismiss"}
    <3> DEFINE up == IF c.op = "interrupted" THEN {s \in v : sessions[s].sump = c.sump}
                     ELSE page.notices \ {c.arg}
    <3>1. page' = [page EXCEPT !.notices = up]
      BY <2>3, <2>7 DEF Shown
    <3>2. up \subseteq DOMAIN sessions
      <4>1. CASE c.op = "interrupted"
        BY <1>6, <4>1 DEF ValueOf, SessionOps
      <4>2. CASE c.op # "interrupted"
        BY <2>1, <4>2, PageShown
      <4> QED
        BY <4>1, <4>2
    <3>3. DOMAIN sessions \subseteq SessionIds
      BY PageAssumption DEF Typed, SessionIds
    <3>4. c.op = "interrupted" => up = {s \in v : sessions[s].sump = c.sump}
      OBVIOUS
    <3>5. c.op = "dismiss" => up = page.notices \ {c.arg}
      OBVIOUS
    <3> HIDE DEF up
    <3> QED
      BY <2>1, <2>2, <2>7, <3>1, <3>2, <3>3, <3>4, <3>5 DEF KnownPage, Page, SessionOps
  <2>8. CASE c.op = "rules"
    <3>1. page' = [page EXCEPT !.rules = v]
      BY <2>3, <2>8 DEF Shown
    <3>2. v \in KnownRules
      BY <1>6, <2>8 DEF ValueOf, SessionOps
    <3>3. DOMAIN rules \subseteq RuleIds
      BY PageAssumption DEF Typed, RuleIds
    <3>4. v \in SUBSET (RuleIds \X {"enabled", "disabled"})
      BY <3>2, <3>3 DEF KnownRules
    <3> QED
      BY <2>1, <2>2, <2>8, <3>1, <3>2, <3>4 DEF KnownPage, Page, SessionOps
  <2>9. CASE c.op \in ChangeOps
    <3>1. page' = page
      BY <2>3, <2>9 DEF Shown, ChangeOps
    <3> QED
      BY <2>1, <2>2, <2>9, <3>1 DEF ChangeOps, SessionOps
  <2>10. c.op \in {"query", "evaluate", "interrupted", "dismiss", "rules"} \cup SessionOps
                  \cup ChangeOps
    BY <1>6 DEF Call, SessionOps, ChangeOps
  <2> QED
    BY <2>4, <2>5, <2>6, <2>7, <2>8, <2>9, <2>10
<1>9. ~c.live => page' = page
  BY <1>1, <1>4
<1> HIDE DEF r
<1>10. Hears(r)
  <2> SUFFICES Hears(r)
    OBVIOUS
  <2>1. r = Head(replies)
    BY DEF r
  <2> QED
    BY <1>1, <1>2, <1>4, <1>5, <1>7, <1>8, <1>9, <2>1 DEF Hears
<1> QED
  BY <1>2, <1>10

\* Every step is one of these moves.
Moves ==
    \/ \E c \in KnownCall : Asks(c)
    \/ \E sump \in Sumps : Shows(sump)
    \/ LeavePage
    \/ \E r \in Answer : Hears(r)
    \/ \E job \in KnownJob : Takes(job)
    \/ \E r : Gives(r)
    \/ \E i \in DOMAIN working : \E r : Settles(i, r)
    \/ \E i \in DOMAIN working, job \in KnownJob : Obeys(i, job)

LEMMA NextMoves ==
    ASSUME Typed, Next
    PROVE  Moves /\ Tables' /\ Grows
<1>1. Tables' /\ Grows
  BY TablesStep
<1>2. CASE UserActs
  BY <1>1, <1>2, UserMoves DEF Moves
<1>3. CASE Receive
  BY <1>1, <1>3, ReceiveMoves DEF Moves
<1>4. CASE MainReads
  BY <1>1, <1>4, TakesMoves, ReadsMoves, SessionMoves DEF MainReads, Moves
<1>5. CASE \E i \in DOMAIN working : MainSettles(i)
  BY <1>1, <1>5, SettlesMoves DEF Moves
<1> QED
  BY <1>2, <1>3, <1>4, <1>5 DEF Next

LEMMA LeavePageTyped ==
    ASSUME Typed, LeavePage
    PROVE  /\ requests' \in Seq(KnownCall) /\ working' \in Seq(KnownJob)
           /\ replies' \in Seq(Answer)
           /\ acts' \in 0 .. MaxActs /\ Unheard'
<1>1. /\ requests \in Seq(KnownCall) /\ working \in Seq(KnownJob) /\ replies \in Seq(Answer)
  BY DEF Typed
<1>2. /\ requests' = [i \in DOMAIN requests |-> [requests[i] EXCEPT !.live = FALSE]]
      /\ working' = [i \in DOMAIN working |-> [working[i] EXCEPT !.call.live = FALSE]]
      /\ replies' = [i \in DOMAIN replies |-> [replies[i] EXCEPT !.call.live = FALSE]]
      /\ Acts
  BY DEF LeavePage
<1>c. ASSUME NEW c \in KnownCall
      PROVE  [c EXCEPT !.live = FALSE] \in KnownCall /\ ~[c EXCEPT !.live = FALSE].live
             /\ [c EXCEPT !.live = FALSE].op = c.op /\ [c EXCEPT !.live = FALSE].arg = c.arg
  BY DEF KnownCall, Call
<1>3. requests' \in Seq(KnownCall) /\ \A i \in DOMAIN requests' : ~requests'[i].live
  <2>1. \A i \in 1 .. Len(requests) : requests[i] \in KnownCall
    BY <1>1
  <2>2. Len(requests) \in Nat /\ DOMAIN requests = 1 .. Len(requests)
    BY <1>1
  <2>3. /\ requests' \in [1 .. Len(requests) -> KnownCall]
        /\ \A i \in 1 .. Len(requests) : ~requests'[i].live
    BY <1>2, <1>c, <2>1, <2>2
  <2>4. requests' \in Seq(KnownCall)
    <3> SUFFICES ASSUME NEW f \in [1 .. Len(requests) -> KnownCall], f = requests'
                 PROVE  f \in Seq(KnownCall)
      BY <2>3
    <3> QED
      BY <2>2, FunctionIsSequence
  <2> QED
    BY <2>3, <2>4
<1>4. working' \in Seq(KnownJob) /\ \A i \in DOMAIN working' : ~working'[i].call.live
  <2>j. ASSUME NEW j \in KnownJob
        PROVE  /\ [j EXCEPT !.call.live = FALSE] \in KnownJob
               /\ ~[j EXCEPT !.call.live = FALSE].call.live
    <3>1. PICK c : c = [j.call EXCEPT !.live = FALSE]
      OBVIOUS
    <3>2. c \in KnownCall /\ ~c.live /\ c.op = j.call.op /\ c.arg = j.call.arg /\ c \in Call
      BY <1>c, <3>1 DEF KnownJob, KnownCall
    <3>3. j \in Job
      BY DEF KnownJob
    <3>4. [j EXCEPT !.call.live = FALSE] = [j EXCEPT !.call = c]
      BY <3>1, <3>3 DEF Job
    <3>5. [j EXCEPT !.call = c] \in KnownJob /\ [j EXCEPT !.call = c].call = c
      BY <3>2, <3>3 DEF KnownJob, Job
    <3> QED
      BY <3>2, <3>4, <3>5
  <2>1. \A i \in 1 .. Len(working) : working[i] \in KnownJob
    BY <1>1
  <2>2. Len(working) \in Nat /\ DOMAIN working = 1 .. Len(working)
    BY <1>1
  <2>3. /\ working' \in [1 .. Len(working) -> KnownJob]
        /\ \A i \in 1 .. Len(working) : ~working'[i].call.live
    BY <1>2, <2>j, <2>1, <2>2
  <2>4. working' \in Seq(KnownJob)
    <3> SUFFICES ASSUME NEW f \in [1 .. Len(working) -> KnownJob], f = working'
                 PROVE  f \in Seq(KnownJob)
      BY <2>3
    <3> QED
      BY <2>2, FunctionIsSequence
  <2> QED
    BY <2>3, <2>4
<1>5. replies' \in Seq(Answer) /\ \A i \in DOMAIN replies' : ~replies'[i].call.live
  <2>j. ASSUME NEW r \in Answer
        PROVE  /\ [r EXCEPT !.call.live = FALSE] \in Answer
               /\ ~[r EXCEPT !.call.live = FALSE].call.live
    <3>1. PICK c : c = [r.call EXCEPT !.live = FALSE]
      OBVIOUS
    <3>2. c \in KnownCall /\ ~c.live /\ c.op = r.call.op /\ r.value \in ValueOf(c.op)
      BY <1>c, <3>1, AnswerOf
    <3>3. PICK d \in KnownCall : r \in [call : {d}, value : ValueOf(d.op)]
      BY DEF Answer
    <3>4. [r EXCEPT !.call.live = FALSE] = [r EXCEPT !.call = c]
      BY <3>1, <3>3
    <3>5. d = r.call
      BY <3>3
    <3>6. /\ [r EXCEPT !.call = c] \in [call : {c}, value : ValueOf(c.op)]
          /\ [r EXCEPT !.call = c].call = c
      BY <3>2, <3>3, <3>5
    <3> QED
      BY <3>2, <3>4, <3>6 DEF Answer
  <2>1. \A i \in 1 .. Len(replies) : replies[i] \in Answer
    BY <1>1
  <2>2. Len(replies) \in Nat /\ DOMAIN replies = 1 .. Len(replies)
    BY <1>1
  <2>3. /\ replies' \in [1 .. Len(replies) -> Answer]
        /\ \A i \in 1 .. Len(replies) : ~replies'[i].call.live
    BY <1>2, <2>j, <2>1, <2>2
  <2>4. replies' \in Seq(Answer)
    <3> SUFFICES ASSUME NEW f \in [1 .. Len(replies) -> Answer], f = replies'
                 PROVE  f \in Seq(Answer)
      BY <2>3
    <3> QED
      BY <2>2, FunctionIsSequence
  <2> QED
    BY <2>3, <2>4
<1> QED
  BY <1>2, <1>3, <1>4, <1>5, ActsType DEF Unheard

LEMMA TypedStart == Init => Typed
<1> SUFFICES ASSUME Init  PROVE Typed
  OBVIOUS
<1>1. sessions \in Seq(Row) /\ Len(sessions) <= 1
  <2>1. CASE sessions = << >>
    BY <2>1
  <2>2. CASE \E sump \in Sumps, row \in {<<"paused", TRUE>>, <<"recording", FALSE>>} :
               sessions = <<[sump |-> sump, status |-> row[1], notice |-> row[2]]>>
    <3>1. PICK sump \in Sumps, row \in {<<"paused", TRUE>>, <<"recording", FALSE>>} :
            sessions = <<[sump |-> sump, status |-> row[1], notice |-> row[2]]>>
      BY <2>2
    <3> DEFINE r == [sump |-> sump, status |-> row[1], notice |-> row[2]]
    <3>2. row[1] \in {"paused", "recording"} /\ row[2] \in BOOLEAN
      <4>1. CASE row = <<"paused", TRUE>>
        <5>1. row[2] \in BOOLEAN
          BY <4>1
        <5> QED
          BY <4>1, <5>1
      <4>2. CASE row = <<"recording", FALSE>>
        <5>1. row[2] \in BOOLEAN
          BY <4>2
        <5> QED
          BY <4>2, <5>1
      <4> QED
        BY <4>1, <4>2
    <3>3. r \in Row
      BY <3>2 DEF Row
    <3>4. sessions = <<r>>
      BY <3>1
    <3> HIDE DEF r
    <3> QED
      BY <3>3, <3>4
  <2> QED
    BY <2>1, <2>2 DEF Init
<1>2. Len(sessions) <= MaxSessions
  BY <1>1, PageAssumption
<1>3. page = Null /\ requests = << >> /\ working = << >> /\ replies = << >> /\ rules = << >>
      /\ acts = 0 /\ calm \in BOOLEAN /\ ruled \in BOOLEAN
  BY DEF Init
<1>4. Unheard
  BY <1>3 DEF Unheard
<1>5. << >> \in Seq(KnownCall) /\ << >> \in Seq(KnownJob) /\ << >> \in Seq(Answer)
      /\ << >> \in Seq(Rule) /\ Len(<< >>) = 0
  OBVIOUS
<1>6. 0 \in 0 .. MaxActs /\ 0 <= MaxRules
  BY PageAssumption
<1> QED
  BY <1>1, <1>2, <1>3, <1>4, <1>5, <1>6 DEF Typed

LEMMA TypedStep ==
    ASSUME Typed, Next
    PROVE  Typed'
<1>1. Moves /\ Tables' /\ Grows
  BY NextMoves
<1>2. /\ KnownCall \subseteq KnownCall' /\ KnownJob \subseteq KnownJob'
      /\ KnownPage \subseteq KnownPage' /\ Answer \subseteq Answer'
  BY <1>1, KnownGrows
<1>3. /\ requests \in Seq(KnownCall) /\ working \in Seq(KnownJob) /\ replies \in Seq(Answer)
      /\ page \in KnownPage \cup {Null} /\ acts \in 0 .. MaxActs
      /\ calm \in BOOLEAN /\ ruled \in BOOLEAN /\ (page = Null => Unheard)
  BY DEF Typed
<1>q. /\ Seq(KnownCall) \subseteq Seq(KnownCall') /\ Seq(KnownJob) \subseteq Seq(KnownJob')
      /\ Seq(Answer) \subseteq Seq(Answer')
  BY <1>2, SeqOfMore
<1>t. /\ sessions' \in Seq(Row) /\ Len(sessions') <= MaxSessions
      /\ rules' \in Seq(Rule) /\ Len(rules') <= MaxRules
  BY <1>1 DEF Tables
<1>n. \A p \in KnownPage : p # Null
  BY NullIsOther DEF KnownPage
<1>g. ASSUME page' \in KnownPage \cup {Null}, requests' \in Seq(KnownCall),
             working' \in Seq(KnownJob), replies' \in Seq(Answer) \/ replies' \in Seq(Answer'),
             acts' \in 0 .. MaxActs, calm' \in BOOLEAN, ruled' \in BOOLEAN,
             page' = Null => Unheard'
      PROVE  Typed'
  BY <1>g, <1>2, <1>q, <1>t DEF Typed
<1>4. ASSUME NEW c \in KnownCall, Asks(c)  PROVE Typed'
  <2>1. /\ page # Null /\ page \in KnownPage
        /\ page' = IF c.op = "query" THEN [page EXCEPT !.phase = "loading"] ELSE page
        /\ requests' = Append(requests, c)
        /\ UNCHANGED <<working, replies, ruled>>
        /\ acts' \in 0 .. MaxActs /\ calm' \in BOOLEAN
    BY <1>4, <1>3 DEF Asks
  <2>2. page' \in KnownPage
    BY <2>1 DEF KnownPage, Page
  <2>3. requests' \in Seq(KnownCall)
    BY <1>3, <2>1
  <2> QED
    BY <1>g, <1>3, <1>n, <2>1, <2>2, <2>3
<1>5. ASSUME NEW sump \in Sumps, Shows(sump)  PROVE Typed'
  <2>1. requests' \in Seq(KnownCall)
    <3>1. PICK a \in KnownCall, b \in KnownCall, d \in KnownCall :
            requests' = Append(Append(Append(requests, a), b), d)
      BY <1>5 DEF Shows
    <3> QED
      BY <1>3, <3>1
  <2> QED
    BY <1>g, <1>3, <1>5, <1>n, <2>1 DEF Shows
<1>6. CASE LeavePage
  <2>1. page' = Null /\ UNCHANGED <<calm, ruled>>
    BY <1>6 DEF LeavePage
  <2> QED
    BY <1>g, <1>3, <1>6, <2>1, LeavePageTyped
<1>7. ASSUME NEW r \in Answer, Hears(r)  PROVE Typed'
  <2>1. /\ replies # << >> /\ replies' = Tail(replies) /\ UNCHANGED <<working, catalog, history>>
        /\ ~r.call.live => UNCHANGED page
        /\ r.call.live => page' \in KnownPage
        /\ r = Head(replies)
    BY <1>7 DEF Hears
  <2>2. replies' \in Seq(Answer)
    BY <1>3, <2>1
  <2>3. requests' = requests \/ \E d \in KnownCall : requests' = Append(requests, d) /\ d.live = r.call.live
    BY <1>7 DEF Hears
  <2>4. requests' \in Seq(KnownCall)
    BY <1>3, <2>3
  <2>5. ASSUME page' = Null  PROVE Unheard'
    <3>1. page = Null /\ ~r.call.live
      BY <2>1, <2>5, <1>n
    <3>2. \A i \in DOMAIN requests' : ~requests'[i].live
      <4>1. \A i \in DOMAIN requests : ~requests[i].live
        BY <1>3, <3>1 DEF Unheard
      <4>2. CASE requests' = requests
        BY <4>1, <4>2
      <4>3. ASSUME NEW d \in KnownCall, requests' = Append(requests, d), ~d.live
            PROVE  \A i \in DOMAIN requests' : ~requests'[i].live
        BY <1>3, <4>1, <4>3
      <4> QED
        BY <2>3, <3>1, <4>2, <4>3
    <3>3. \A i \in DOMAIN replies' : ~replies'[i].call.live
      <4>1. \A i \in DOMAIN replies : ~replies[i].call.live
        BY <1>3, <3>1 DEF Unheard
      <4>2. \A i \in DOMAIN Tail(replies) : i + 1 \in DOMAIN replies
                                             /\ Tail(replies)[i] = replies[i + 1]
        BY <1>3, <2>1, HeadOf
      <4> QED
        BY <2>1, <4>1, <4>2
    <3> QED
      BY <1>3, <2>1, <3>1, <3>2, <3>3 DEF Unheard
  <2> QED
    BY <1>g, <1>3, <2>1, <2>2, <2>4, <2>5 DEF history
<1>u. ASSUME requests # << >>, requests' = Tail(requests), page = Null
      PROVE  ~Head(requests).live /\ \A i \in DOMAIN requests' : ~requests'[i].live
  <2>1. \A i \in DOMAIN requests : ~requests[i].live
    BY <1>u, <1>3 DEF Unheard
  <2>2. /\ 1 \in DOMAIN requests /\ Head(requests) = requests[1]
        /\ \A i \in DOMAIN Tail(requests) : i + 1 \in DOMAIN requests
                                            /\ Tail(requests)[i] = requests[i + 1]
    BY <1>u, <1>3, HeadOf
  <2> QED
    BY <1>u, <2>1, <2>2
<1>8. ASSUME NEW job \in KnownJob, Takes(job)  PROVE Typed'
  <2>1. /\ requests # << >> /\ requests' = Tail(requests) /\ working' = Append(working, job)
        /\ job.call = Head(requests) /\ UNCHANGED <<page, replies, catalog, history>>
    BY <1>8 DEF Takes
  <2>2. requests' \in Seq(KnownCall) /\ working' \in Seq(KnownJob)
    BY <1>3, <2>1
  <2>3. ASSUME page' = Null  PROVE Unheard'
    <3>1. \A i \in DOMAIN working : ~working[i].call.live
      BY <1>3, <2>1, <2>3 DEF Unheard
    <3>2. \A i \in DOMAIN replies : ~replies[i].call.live
      BY <1>3, <2>1, <2>3 DEF Unheard
    <3>3. ~job.call.live /\ \A i \in DOMAIN requests' : ~requests'[i].live
      BY <1>u, <2>1, <2>3
    <3>4. \A i \in DOMAIN working' : ~working'[i].call.live
      BY <1>3, <2>1, <3>1, <3>3
    <3> QED
      BY <2>1, <3>2, <3>3, <3>4 DEF Unheard
  <2> QED
    BY <1>g, <1>3, <2>1, <2>2, <2>3 DEF history
<1>a. ASSUME NEW r \in Answer', replies' = Append(replies, r)
      PROVE  /\ replies' \in Seq(Answer')
             /\ page = Null /\ ~r.call.live => \A i \in DOMAIN replies' : ~replies'[i].call.live
  <2>1. replies \in Seq(Answer')
    BY <1>3, <1>q
  <2>2. page = Null => \A i \in DOMAIN replies : ~replies[i].call.live
    BY <1>3 DEF Unheard
  <2> QED
    BY <1>a, <2>1, <2>2
<1>9. ASSUME NEW r, Gives(r)  PROVE Typed'
  <2>1. /\ requests # << >> /\ requests' = Tail(requests)
        /\ r \in Answer' /\ r.call = Head(requests) /\ replies' = Append(replies, r)
        /\ UNCHANGED <<page, working, history>>
    BY <1>9 DEF Gives
  <2>2. requests' \in Seq(KnownCall) /\ replies' \in Seq(Answer')
    BY <1>3, <1>a, <2>1
  <2>3. ASSUME page' = Null  PROVE Unheard'
    <3>1. \A i \in DOMAIN working : ~working[i].call.live
      BY <1>3, <2>1, <2>3 DEF Unheard
    <3>2. ~r.call.live /\ \A i \in DOMAIN requests' : ~requests'[i].live
      BY <1>u, <2>1, <2>3
    <3> QED
      BY <1>a, <2>1, <2>3, <3>1, <3>2 DEF Unheard
  <2> QED
    BY <1>g, <1>3, <2>1, <2>2, <2>3 DEF history
<1>10. ASSUME NEW i \in DOMAIN working, NEW r, Settles(i, r)  PROVE Typed'
  <2>1. /\ working' = RemoveAt(working, i) /\ r \in Answer' /\ r.call = working[i].call
        /\ replies' = Append(replies, r) /\ UNCHANGED <<page, requests, rules, history>>
    BY <1>10 DEF Settles
  <2>2. working' \in Seq(KnownJob) /\ replies' \in Seq(Answer')
    BY <1>3, <1>a, <2>1, RemoveAtFacts
  <2>3. ASSUME page' = Null  PROVE Unheard'
    <3>1. /\ \A j \in DOMAIN working : ~working[j].call.live
          /\ \A j \in DOMAIN requests : ~requests[j].live
      BY <1>3, <2>1, <2>3 DEF Unheard
    <3>2. \A j \in DOMAIN working' : ~working'[j].call.live
      BY <1>3, <2>1, <3>1, RemoveAtElements
    <3> QED
      BY <1>a, <2>1, <2>3, <3>1, <3>2 DEF Unheard
  <2> QED
    BY <1>g, <1>3, <2>1, <2>2, <2>3 DEF history
<1>11. ASSUME NEW i \in DOMAIN working, NEW job \in KnownJob, Obeys(i, job)  PROVE Typed'
  <2>1. /\ working' = [working EXCEPT ![i] = job] /\ job.call = working[i].call
        /\ UNCHANGED <<page, requests, replies, rules, acts, calm>> /\ ruled' \in BOOLEAN
    BY <1>11 DEF Obeys
  <2>2. working' \in Seq(KnownJob)
    BY <1>3, <2>1
  <2>3. page' = Null => Unheard'
    BY <1>3, <2>1 DEF Unheard
  <2> QED
    BY <1>g, <1>3, <2>1, <2>2, <2>3
<1> QED
  BY <1>1, <1>4, <1>5, <1>6, <1>7, <1>8, <1>9, <1>10, <1>11 DEF Moves

LEMMA TypedImplies == Typed => TypeOK
<1> SUFFICES ASSUME Typed  PROVE TypeOK
  OBVIOUS
<1>1. KnownPage \subseteq Page /\ KnownCall \subseteq Call /\ KnownJob \subseteq Job
  BY DEF KnownPage, KnownCall, KnownJob
<1>2. requests \in Seq(Call) /\ working \in Seq(Job)
  BY <1>1, SeqOfMore DEF Typed
<1>3. \A i \in DOMAIN replies : replies[i].call \in Call
  BY <1>1, AnswerOf DEF Typed
<1> QED
  BY <1>1, <1>2, <1>3 DEF Typed, TypeOK

\* The page, the calls on their way, the handlers that await and the tables have
\* their types, whatever the user does and in whatever order the answers come.
THEOREM TypeCorrect == Spec => []TypeOK
<1>1. Init => Typed
  BY TypedStart
<1>2. Typed /\ [Next]_vars => Typed'
  <2> SUFFICES ASSUME Typed, [Next]_vars  PROVE Typed'
    OBVIOUS
  <2>1. CASE UNCHANGED vars
    BY <2>1 DEF vars, Typed, Unheard, KnownPage, KnownCall, KnownJob, KnownRules, KnownSummary,
       Answer, ValueOf
  <2> QED
    BY <2>1, TypedStep
<1> QED
  BY <1>1, <1>2, TypedImplies, PTL DEF Spec

-----------------------------------------------------------------------------
(***************************************************************************)
(* The calls on their way are of the sump selected.                        *)
(***************************************************************************)

LEMMA OnTheWay ==
    ASSUME Typed
    PROVE  /\ requests \in Seq(KnownCall) /\ working \in Seq(KnownJob) /\ replies \in Seq(Answer)
           /\ \A i \in DOMAIN requests : requests[i] \in KnownCall
           /\ \A i \in DOMAIN working : working[i] \in KnownJob /\ working[i].call \in KnownCall
           /\ \A i \in DOMAIN replies : /\ replies[i] \in Answer /\ replies[i].call \in KnownCall
                                        /\ replies[i].value \in ValueOf(replies[i].call.op)
           /\ sessions \in Seq(Row) /\ rules \in Seq(Rule)
BY AnswerOf DEF Typed, KnownJob

\* What is appended is the last, what is left was there.
LEMMA OneMore ==
    ASSUME NEW S, NEW q \in Seq(S), NEW x \in S
    PROVE  /\ Append(q, x) \in Seq(S)
           /\ \A i \in DOMAIN q : i \in DOMAIN Append(q, x) /\ Append(q, x)[i] = q[i]
           /\ \A i \in DOMAIN Append(q, x) :
                (i \in DOMAIN q /\ Append(q, x)[i] = q[i])
                \/ (i = Len(q) + 1 /\ Append(q, x)[i] = x)
           /\ Len(q) + 1 \in DOMAIN Append(q, x) /\ Append(q, x)[Len(q) + 1] = x
           /\ Len(q) + 1 \notin DOMAIN q
OBVIOUS

LEMMA OneLess ==
    ASSUME NEW S, NEW q \in Seq(S), q # << >>
    PROVE  /\ Tail(q) \in Seq(S) /\ 1 \in DOMAIN q /\ Head(q) = q[1]
           /\ \A i \in DOMAIN Tail(q) : i + 1 \in DOMAIN q /\ i + 1 # 1 /\ Tail(q)[i] = q[i + 1]
           /\ \A i \in DOMAIN q : i # 1 => i - 1 \in DOMAIN Tail(q) /\ Tail(q)[i - 1] = q[i]
OBVIOUS

LEMMA HereKeeps ==
    ASSUME NEW c \in KnownCall, Here(c), Grows, page'.sump = page.sump
    PROVE  Here(c)'
BY DEF Here, Grows, KnownCall

LEMMA AllHereStep ==
    ASSUME Typed, AllHere, Moves, Grows
    PROVE  AllHere'
<1> SUFFICES ASSUME Selected'
             PROVE  /\ \A i \in DOMAIN requests' : Here(requests[i])'
                    /\ \A i \in DOMAIN working' : Here(working[i].call)'
                    /\ \A i \in DOMAIN replies' : Here(replies[i].call)'
  BY DEF AllHere
<1>w. /\ requests \in Seq(KnownCall) /\ working \in Seq(KnownJob) /\ replies \in Seq(Answer)
      /\ \A i \in DOMAIN requests : requests[i] \in KnownCall
      /\ \A i \in DOMAIN working : working[i] \in KnownJob /\ working[i].call \in KnownCall
      /\ \A i \in DOMAIN replies : /\ replies[i] \in Answer /\ replies[i].call \in KnownCall
  BY OnTheWay
<1> DEFINE Stays == {c \in KnownCall : Here(c)'}
<1>o. ASSUME Selected, page'.sump = page.sump
      PROVE  /\ \A i \in DOMAIN requests : requests[i] \in Stays
             /\ \A i \in DOMAIN working : working[i].call \in Stays
             /\ \A i \in DOMAIN replies : replies[i].call \in Stays
  <2>1. /\ \A i \in DOMAIN requests : Here(requests[i])
        /\ \A i \in DOMAIN working : Here(working[i].call)
        /\ \A i \in DOMAIN replies : Here(replies[i].call)
    BY <1>o DEF AllHere
  <2>2. \A c \in KnownCall : Here(c) => c \in Stays
    BY <1>o, HereKeeps
  <2> QED
    BY <1>w, <2>1, <2>2
<1>g. ASSUME /\ \A i \in DOMAIN requests' : requests'[i] \in Stays
             /\ \A i \in DOMAIN working' : working'[i].call \in Stays
             /\ \A i \in DOMAIN replies' : replies'[i].call \in Stays
      PROVE  /\ \A i \in DOMAIN requests' : Here(requests[i])'
             /\ \A i \in DOMAIN working' : Here(working[i].call)'
             /\ \A i \in DOMAIN replies' : Here(replies[i].call)'
  BY <1>g DEF Here
<1>s. \A c \in KnownCall :
        c \in Stays <=> /\ c.live /\ c.sump = page'.sump
                        /\ c.op \in OnShown => sessions'[c.arg].sump = page'.sump
  BY DEF Here, OnShown
<1> HIDE DEF Stays
<1>1. ASSUME NEW c \in KnownCall, Asks(c)  PROVE AllHere'
  <2>1. /\ Selected /\ page \in KnownPage
        /\ c.live /\ c.sump = page.sump /\ requests' = Append(requests, c)
        /\ page'.sump = page.sump /\ UNCHANGED <<working, replies, sessions>>
        /\ c.op \in OnShown => /\ page.session # Null /\ c.arg = page.session.id
                               /\ page.session.sump = page.sump
    BY <1>1 DEF Asks, Selected, Typed, KnownPage, Page, catalog
  <2>2. page.session # Null => sessions[page.session.id].sump = page.session.sump
    BY <2>1 DEF KnownPage, KnownSummary
  <2>3. c \in Stays
    BY <1>s, <2>1, <2>2
  <2>4. \A i \in DOMAIN requests' : requests'[i] \in Stays
    BY <1>w, <1>o, <2>1, <2>3, OneMore
  <2> QED
    BY <1>g, <1>o, <2>1, <2>4 DEF AllHere
<1>2. ASSUME NEW sump \in Sumps, Shows(sump)  PROVE AllHere'
  <2>1. /\ Still /\ UNCHANGED <<working, replies>> /\ page'.sump = sump
        /\ requests' = Append(Append(Append(requests, Opening("query", sump)),
                                     Opening("session", sump)),
                              Opening("rules", sump))
        /\ \A op \in {"query", "session", "rules"} : Opening(op, sump) \in KnownCall
    BY <1>2 DEF Shows, Selected
  <2>2. \A op \in {"query", "session", "rules"} : Opening(op, sump) \in Stays
    BY <1>s, <2>1 DEF Opening, OnShown
  <2>3. PICK a \in Stays, b \in Stays, d \in Stays :
          requests' = Append(Append(Append(<< >>, a), b), d)
    BY <2>1, <2>2 DEF Still
  <2>4. \A i \in DOMAIN requests' : requests'[i] \in Stays
    BY <2>3
  <2>5. working' = << >> /\ replies' = << >>
    BY <2>1 DEF Still
  <2> QED
    BY <1>g, <2>4, <2>5 DEF AllHere
<1>3. CASE LeavePage
  BY <1>3 DEF LeavePage, Selected
<1>4. ASSUME NEW r \in Answer, Hears(r)  PROVE AllHere'
  <2>1. /\ replies # << >> /\ replies' = Tail(replies) /\ r = Head(replies)
        /\ UNCHANGED <<working, catalog, history>>
        /\ Selected /\ page'.sump = page.sump
    BY <1>4 DEF Hears, Selected, history
  <2>2. r.call \in Stays
    BY <1>w, <1>o, <2>1, OneLess
  <2>3. \A i \in DOMAIN replies' : replies'[i].call \in Stays
    BY <1>w, <1>o, <2>1, OneLess
  <2>4. UNCHANGED requests
        \/ \E d \in KnownCall : /\ requests' = Append(requests, d)
                                /\ d.live = r.call.live /\ d.sump = r.call.sump
                                /\ d.op \notin OnShown
    BY <1>4 DEF Hears, OnShown
  <2>5. \A i \in DOMAIN requests' : requests'[i] \in Stays
    <3>1. ASSUME NEW d \in KnownCall, requests' = Append(requests, d),
                 d.live = r.call.live, d.sump = r.call.sump, d.op \notin OnShown
          PROVE  \A i \in DOMAIN requests' : requests'[i] \in Stays
      <4>1. r.call \in KnownCall
        BY AnswerOf
      <4>2. d \in Stays
        BY <1>s, <2>2, <3>1, <4>1
      <4> QED
        BY <1>w, <1>o, <2>1, <3>1, <4>2, OneMore
    <3> QED
      BY <1>o, <2>1, <2>4, <3>1
  <2> QED
    BY <1>g, <1>o, <2>1, <2>3, <2>5 DEF AllHere
<1>5. ASSUME NEW job \in KnownJob, Takes(job)  PROVE AllHere'
  <2>1. /\ requests # << >> /\ requests' = Tail(requests) /\ working' = Append(working, job)
        /\ job.call = Head(requests) /\ UNCHANGED replies
        /\ Selected /\ page'.sump = page.sump
    BY <1>5 DEF Takes, Selected, history
  <2>2. job.call \in Stays /\ \A i \in DOMAIN requests' : requests'[i] \in Stays
    BY <1>w, <1>o, <2>1, OneLess
  <2>3. \A i \in DOMAIN working' : working'[i].call \in Stays
    BY <1>w, <1>o, <2>1, <2>2, OneMore
  <2> QED
    BY <1>g, <1>o, <2>1, <2>2, <2>3 DEF AllHere
<1>6. ASSUME NEW r, Gives(r)  PROVE AllHere'
  <2>1. /\ requests # << >> /\ requests' = Tail(requests) /\ replies' = Append(replies, r)
        /\ r.call = Head(requests) /\ UNCHANGED working
        /\ Selected /\ page'.sump = page.sump
    BY <1>6 DEF Gives, Selected, history
  <2>2. r.call \in Stays /\ \A i \in DOMAIN requests' : requests'[i] \in Stays
    BY <1>w, <1>o, <2>1, OneLess
  <2>3. \A i \in DOMAIN replies' : replies'[i].call \in Stays
    BY <1>w, <1>o, <2>1, <2>2
  <2> QED
    BY <1>g, <1>o, <2>1, <2>2, <2>3 DEF AllHere
<1>7. ASSUME NEW i \in DOMAIN working, NEW r, Settles(i, r)  PROVE AllHere'
  <2>1. /\ working' = RemoveAt(working, i) /\ replies' = Append(replies, r)
        /\ r.call = working[i].call /\ UNCHANGED requests
        /\ Selected /\ page'.sump = page.sump
    BY <1>7 DEF Settles, Selected, history
  <2>2. \A j \in DOMAIN working' : working'[j].call \in Stays
    BY <1>w, <1>o, <2>1, RemoveAtElements
  <2>3. \A j \in DOMAIN replies' : replies'[j].call \in Stays
    BY <1>w, <1>o, <2>1
  <2> QED
    BY <1>g, <1>o, <2>1, <2>2, <2>3 DEF AllHere
<1>8. ASSUME NEW i \in DOMAIN working, NEW job \in KnownJob, Obeys(i, job)  PROVE AllHere'
  <2>1. /\ working' = [working EXCEPT ![i] = job] /\ job.call = working[i].call
        /\ UNCHANGED <<requests, replies>> /\ Selected /\ page'.sump = page.sump
    BY <1>8 DEF Obeys, Selected
  <2>2. \A j \in DOMAIN working' : working'[j].call \in Stays
    BY <1>w, <1>o, <2>1
  <2> QED
    BY <1>g, <1>o, <2>1, <2>2 DEF AllHere
<1> QED
  BY <1>1, <1>2, <1>3, <1>4, <1>5, <1>6, <1>7, <1>8 DEF Moves, AllHere

-----------------------------------------------------------------------------
(***************************************************************************)
(* The session shown.                                                      *)
(***************************************************************************)

LEMMA AnswerNext ==
    ASSUME NEW r \in Answer'
    PROVE  /\ r.call \in KnownCall'
           /\ r.call.op \in SessionOps => r.value \in KnownSummary' \cup {Null}
           /\ r.call.op = "interrupted" => r.value \subseteq DOMAIN sessions'
<1>1. PICK c \in KnownCall' : r \in [call : {c}, value : ValueOf(c.op)']
  BY DEF Answer
<1>2. r.call = c /\ r.value \in ValueOf(c.op)'
  BY <1>1
<1>3. c.op \in SessionOps => ValueOf(c.op)' = KnownSummary' \cup {Null}
  BY DEF ValueOf, SessionOps
<1>4. c.op = "interrupted" => ValueOf(c.op)' = SUBSET DOMAIN sessions'
  BY DEF ValueOf, SessionOps
<1> QED
  BY <1>1, <1>2, <1>3, <1>4

\* As long as the statuses stay, what was right of a sump still is.
LEMMA TrueKeeps ==
    ASSUME NEW sump, DOMAIN sessions' = DOMAIN sessions, Grows,
           \A s \in DOMAIN sessions : sessions'[s].status = sessions[s].status
    PROVE  TrueSession(sump) \subseteq TrueSession(sump)'
<1>1. KnownSummary \subseteq KnownSummary'
  BY KnownGrows
<1>2. Active(sump)' = Active(sump)
  BY DEF Active, Grows
<1>3. \A v \in KnownSummary : v.id \in DOMAIN sessions
  BY DEF KnownSummary
<1> SUFFICES ASSUME NEW v \in TrueSession(sump)  PROVE v \in TrueSession(sump)'
  OBVIOUS
<1>4. CASE v = Null
  BY <1>2, <1>4 DEF TrueSession
<1>5. CASE v # Null
  BY <1>1, <1>3, <1>5 DEF TrueSession
<1> QED
  BY <1>4, <1>5

\* What a handler answers of a session of the sump is right when it answers.
LEMMA TrueAnswer ==
    ASSUME NEW sump, NEW v \in KnownSummary', v # Null,
           v.status = sessions'[v.id].status,
           v.sump = sump \/ sessions'[v.id].sump = sump
    PROVE  v \in TrueSession(sump)'
BY DEF TrueSession, KnownSummary

LEMMA TrueLoaded ==
    ASSUME Typed, NEW sump, UNCHANGED sessions, NEW v \in KnownSummary' \cup {Null},
           v = SummaryOf(sessions, ActiveSession(sump))
    PROVE  v \in TrueSession(sump)'
<1>1. Active(sump)' = Active(sump)
  BY DEF Active
<1>2. CASE Active(sump) = {}
  <2>1. v = Null
    BY <1>2, ActiveFacts DEF SummaryOf, Typed
  <2> QED
    BY <1>1, <1>2, <2>1 DEF TrueSession
<1>3. CASE Active(sump) # {}
  <2>1. PICK s : s = ActiveSession(sump)
    OBVIOUS
  <2>2. s \in DOMAIN sessions /\ s # Null /\ sessions[s].sump = sump
    BY <1>3, <2>1, ActiveFacts DEF Typed
  <2>3. v = [id |-> s, sump |-> sessions[s].sump, status |-> sessions[s].status]
    BY <2>1, <2>2 DEF SummaryOf
  <2>4. v.id = s /\ v.sump = sump /\ v.status = sessions[s].status
    BY <2>2, <2>3
  <2>5. v # Null
    <3>1. sessions[s] \in Row /\ s \in SessionIds
      BY <2>2, PageAssumption DEF Typed, SessionIds
    <3>2. v \in Summary
      BY <2>3, <3>1 DEF Summary, Row
    <3> QED
      BY <3>2, NullIsOther
  <2> QED
    BY <2>4, <2>5, TrueAnswer
<1> QED
  BY <1>2, <1>3

LEMMA SessionHereStep ==
    ASSUME Typed, AllHere, SessionHere, Moves, Grows
    PROVE  SessionHere'
<1> SUFFICES ASSUME Selected', ~ruled'
             PROVE  \/ \E i \in DOMAIN requests' : requests'[i].op = "session"
                    \/ LastSays(replies', SessionOps, page'.session, TrueSession(page.sump)')
  BY DEF SessionHere
<1> DEFINE SessionAsked(q) == \E i \in DOMAIN q : q[i].op = "session"
<1> DEFINE Goal == \/ SessionAsked(requests')
                   \/ LastSays(replies', SessionOps, page'.session, TrueSession(page.sump)')
<1> SUFFICES Goal
  OBVIOUS
<1>w. /\ requests \in Seq(KnownCall) /\ working \in Seq(KnownJob) /\ replies \in Seq(Answer)
      /\ \A i \in DOMAIN requests : requests[i] \in KnownCall
  BY OnTheWay
<1>o. ASSUME Selected, ~ruled
      PROVE  \/ SessionAsked(requests)
             \/ LastSays(replies, SessionOps, page.session, TrueSession(page.sump))
  BY <1>o DEF SessionHere
<1>h. ASSUME requests # << >>, requests' = Tail(requests), Head(requests).op # "session",
             SessionAsked(requests)
      PROVE  SessionAsked(requests')
  <2>1. PICK i \in DOMAIN requests : requests[i].op = "session"
    BY <1>h
  <2>2. i # 1 /\ i - 1 \in DOMAIN requests' /\ requests'[i - 1] = requests[i]
    BY <1>h, <1>w, <2>1, OneLess
  <2> QED
    BY <2>1, <2>2
<1>m. ASSUME NEW c \in KnownCall, requests' = Append(requests, c), SessionAsked(requests)
      PROVE  SessionAsked(requests')
  BY <1>m, <1>w, OneMore
<1>k. ASSUME UNCHANGED sessions, NEW sump  PROVE TrueSession(sump) \subseteq TrueSession(sump)'
  BY <1>k, TrueKeeps
<1>a. ASSUME NEW sump, NEW r \in Answer', replies' = Append(replies, r),
             IF r.call.op \in SessionOps THEN r.value \in TrueSession(sump)'
             ELSE LastSays(replies, SessionOps, page.session, TrueSession(sump)')
      PROVE  LastSays(replies', SessionOps, page.session, TrueSession(sump)')
  <2>1. replies \in Seq(Answer')
    BY <1>w, KnownGrows, SeqOfMore
  <2>2. PICK right : right = TrueSession(sump)'
    OBVIOUS
  <2>3. LastSays(Append(replies, r), SessionOps, page.session, right)
    BY <1>a, <2>1, <2>2, LastSaysAppend
  <2> QED
    BY <1>a, <2>2, <2>3
<1>l. ASSUME NEW sump, TrueSession(sump) \subseteq TrueSession(sump)',
             LastSays(replies, SessionOps, page.session, TrueSession(sump))
      PROVE  LastSays(replies, SessionOps, page.session, TrueSession(sump)')
  <2>1. PICK more : more = TrueSession(sump)'
    OBVIOUS
  <2> QED
    BY <1>l, <2>1, LastSaysMore
<1>1. ASSUME NEW c \in KnownCall, Asks(c)  PROVE Goal
  <2>1. /\ Selected /\ ~ruled /\ page \in KnownPage
        /\ requests' = Append(requests, c) /\ page'.session = page.session
        /\ page'.sump = page.sump /\ UNCHANGED <<replies, sessions>>
    BY <1>1 DEF Asks, Selected, Typed, KnownPage, Page, catalog
  <2> DEFINE sump == page.sump
  <2> QED
    BY <1>o, <1>m, <1>k, <1>l, <2>1
<1>2. ASSUME NEW sump \in Sumps, Shows(sump)  PROVE Goal
  <2>1. requests' = Append(Append(Append(requests, Opening("query", sump)),
                                  Opening("session", sump)),
                           Opening("rules", sump))
        /\ \A op \in {"query", "session", "rules"} : Opening(op, sump) \in KnownCall
    BY <1>2 DEF Shows
  <2>2. PICK a \in KnownCall, b \in KnownCall, d \in KnownCall :
          b.op = "session" /\ requests' = Append(Append(Append(requests, a), b), d)
    BY <2>1 DEF Opening
  <2>3. Len(requests) + 2 \in DOMAIN requests' /\ requests'[Len(requests) + 2] = b
    BY <1>w, <2>2
  <2> QED
    BY <2>2, <2>3
<1>3. CASE LeavePage
  BY <1>3 DEF LeavePage, Selected
<1>4. ASSUME NEW r \in Answer, Hears(r)  PROVE Goal
  <2>1. /\ replies # << >> /\ replies' = Tail(replies) /\ r = Head(replies)
        /\ Selected /\ ~ruled /\ UNCHANGED sessions /\ page'.sump = page.sump
        /\ requests' = requests \/ \E d \in KnownCall : requests' = Append(requests, d)
    BY <1>4 DEF Hears, Selected, catalog, history
  <2>2. r.call.live
    BY <1>w, <2>1, OneLess DEF AllHere, Here
  <2>3. page'.session = IF r.call.op \in SessionOps THEN r.value ELSE page.session
    BY <1>4, <2>2 DEF Hears
  <2>4. CASE SessionAsked(requests)
    BY <1>m, <2>1, <2>4
  <2>5. CASE LastSays(replies, SessionOps, page.session, TrueSession(page.sump))
    <3>1. LastSays(replies, SessionOps, page.session, TrueSession(page.sump)')
      BY <1>k, <1>l, <2>1, <2>5
    <3>2. PICK right : right = TrueSession(page.sump)'
      OBVIOUS
    <3>3. LastSays(replies', SessionOps, page'.session, right)
      BY <1>w, <2>1, <2>3, <3>1, <3>2, LastSaysTail
    <3> QED
      BY <2>1, <3>2, <3>3
  <2> QED
    BY <1>o, <2>1, <2>4, <2>5
<1>5. ASSUME NEW job \in KnownJob, Takes(job)  PROVE Goal
  <2>1. /\ requests # << >> /\ requests' = Tail(requests) /\ job.call = Head(requests)
        /\ UNCHANGED <<page, replies, sessions>> /\ Selected /\ ~ruled
    BY <1>5 DEF Takes, Selected, catalog, history
  <2>2. Head(requests).op # "session"
    BY <2>1 DEF KnownJob
  <2> QED
    BY <1>h, <1>k, <1>l, <1>o, <2>1, <2>2
<1>6. ASSUME NEW r, Gives(r)  PROVE Goal
  <2>1. /\ requests # << >> /\ requests' = Tail(requests) /\ r.call = Head(requests)
        /\ r \in Answer' /\ replies' = Append(replies, r)
        /\ UNCHANGED page /\ Selected /\ ~ruled
    BY <1>6 DEF Gives, Selected, history
  <2>2. r.call \in KnownCall /\ Here(r.call)
    BY <1>w, <2>1, OneLess DEF AllHere
  <2>3. CASE r.call.op \in SessionOps
    <3>1. r.value \in KnownSummary' \cup {Null}
      BY <2>1, <2>3, AnswerNext
    <3>2. r.value \in TrueSession(page.sump)'
      <4>1. CASE r.call.op = "session"
        <5>1. /\ UNCHANGED sessions
              /\ r.value = SummaryOf(sessions, ActiveSession(page.sump))
          BY <1>6, <2>2, <4>1 DEF Gives, Here
        <5>2. r.value \in TrueSession(page.sump)'
          <6> SUFFICES ASSUME NEW sump, sump = page.sump
                       PROVE  r.value \in TrueSession(sump)'
            BY <2>1
          <6> QED
            BY <3>1, <5>1, TrueLoaded
        <5> QED
          BY <5>2
      <4>2. CASE r.call.op # "session"
        <5>1. r.call.op \in {"start", "resume", "pause", "stop"}
          BY <2>3, <4>2 DEF SessionOps
        <5>2. /\ r.value # Null /\ r.value.status = sessions'[r.value.id].status
              /\ r.value.sump = r.call.sump
                 \/ (r.value.id = r.call.arg /\ r.call.op \in OnShown)
          BY <1>6, <5>1 DEF Gives
        <5>3. r.value.sump = page.sump \/ sessions'[r.value.id].sump = page.sump
          <6>1. CASE r.value.sump = r.call.sump
            BY <2>2, <6>1 DEF Here
          <6>2. CASE r.value.id = r.call.arg /\ r.call.op \in OnShown
            <7>1. r.call.arg \in DOMAIN sessions /\ sessions[r.call.arg].sump = page.sump
              BY <2>2, <6>2 DEF Here, OnShown, KnownCall
            <7> QED
              BY <6>2, <7>1 DEF Grows
          <6> QED
            BY <5>2, <6>1, <6>2
        <5>4. r.value \in KnownSummary'
          BY <3>1, <5>2
        <5> SUFFICES ASSUME NEW sump, sump = page.sump
                     PROVE  r.value \in TrueSession(sump)'
          BY <2>1
        <5> QED
          BY <5>2, <5>3, <5>4, TrueAnswer
      <4> QED
        BY <4>1, <4>2
    <3> SUFFICES ASSUME NEW sump, sump = page.sump
                 PROVE  LastSays(replies', SessionOps, page.session, TrueSession(sump)')
      BY <2>1
    <3>3. r.value \in TrueSession(sump)'
      BY <2>1, <3>2
    <3> QED
      BY <1>a, <2>1, <2>3, <3>3
  <2>4. CASE r.call.op \notin SessionOps
    <3>1. r.call.op \in {"interrupted", "rules", "dismiss"} \cup ChangeOps
      BY <1>6, <2>2, <2>4 DEF Gives, SessionOps, ChangeOps, KnownCall, Call
    <3>2. /\ DOMAIN sessions' = DOMAIN sessions
          /\ \A s \in DOMAIN sessions : sessions'[s].status = sessions[s].status
      BY <1>6, <3>1 DEF Gives
    <3>3. \A sump : TrueSession(sump) \subseteq TrueSession(sump)'
      BY <3>2, TrueKeeps
    <3>4. CASE SessionAsked(requests)
      <4>1. Head(requests).op # "session"
        BY <2>1, <2>4 DEF SessionOps
      <4> QED
        BY <1>h, <2>1, <3>4, <4>1
    <3>5. CASE LastSays(replies, SessionOps, page.session, TrueSession(page.sump))
      <4> SUFFICES ASSUME NEW sump, sump = page.sump
                   PROVE  LastSays(replies', SessionOps, page.session, TrueSession(sump)')
        BY <2>1
      <4>1. LastSays(replies, SessionOps, page.session, TrueSession(sump)')
        BY <1>l, <3>3, <3>5
      <4> QED
        BY <1>a, <2>1, <2>4, <4>1
    <3> QED
      BY <1>o, <2>1, <3>4, <3>5
  <2> QED
    BY <2>3, <2>4
<1>7. ASSUME NEW i \in DOMAIN working, NEW r, Settles(i, r)  PROVE Goal
  <2>1. /\ UNCHANGED <<requests, page>> /\ r.call = working[i].call
        /\ r \in Answer' /\ replies' = Append(replies, r) /\ Selected /\ ~ruled
    BY <1>7 DEF Settles, Selected, history
  <2>2. r.call \in KnownCall /\ Here(r.call) /\ r.call.op \in {"query", "evaluate", "pause", "stop"}
    BY <2>1, WorkingJob DEF AllHere, KnownJob
  <2>3. CASE SessionAsked(requests)
    BY <2>1, <2>3
  <2>4. CASE LastSays(replies, SessionOps, page.session, TrueSession(page.sump))
    <3> SUFFICES ASSUME NEW sump, sump = page.sump
                 PROVE  LastSays(replies', SessionOps, page.session, TrueSession(sump)')
      BY <2>1
    <3>1. CASE r.call.op \in {"query", "evaluate"}
      <4>1. UNCHANGED sessions /\ r.call.op \notin SessionOps
        BY <1>7, <3>1 DEF Settles, SessionOps
      <4>2. LastSays(replies, SessionOps, page.session, TrueSession(sump)')
        BY <1>k, <1>l, <2>4, <4>1
      <4> QED
        BY <1>a, <2>1, <4>1, <4>2
    <3>2. CASE r.call.op \in {"pause", "stop"}
      <4>1. /\ r.value # Null /\ r.value.id = working[i].id
            /\ r.value.status = sessions'[r.value.id].status
        BY <1>7, <3>2 DEF Settles
      <4>2. working[i].id = r.call.arg /\ r.call.arg \in DOMAIN sessions
        BY <2>1, <2>2, <3>2, WorkingJob DEF KnownJob, KnownCall
      <4>3. sessions'[r.value.id].sump = sump
        BY <2>2, <3>2, <4>1, <4>2 DEF Here, Grows
      <4>4. r.value \in KnownSummary' /\ r.call.op \in SessionOps
        BY <2>1, <3>2, <4>1, AnswerNext DEF SessionOps
      <4>5. r.value \in TrueSession(sump)'
        BY <4>1, <4>3, <4>4, TrueAnswer
      <4> QED
        BY <1>a, <2>1, <4>4, <4>5
    <3> QED
      BY <2>2, <3>1, <3>2
  <2> QED
    BY <1>o, <2>1, <2>3, <2>4
<1>8. ASSUME NEW i \in DOMAIN working, NEW job \in KnownJob, Obeys(i, job)  PROVE Goal
  <2>1. UNCHANGED <<page, requests, replies, sessions>> /\ Selected /\ ~ruled
    BY <1>8 DEF Obeys, Selected
  <2> QED
    BY <1>k, <1>l, <1>o, <2>1
<1> QED
  BY <1>1, <1>2, <1>3, <1>4, <1>5, <1>6, <1>7, <1>8 DEF Moves

-----------------------------------------------------------------------------
(***************************************************************************)
(* The records.                                                            *)
(***************************************************************************)

LEMMA RecordsHereStep ==
    ASSUME Typed, AllHere, RecordsHere, Moves, Grows
    PROVE  RecordsHere'
<1> SUFFICES ASSUME Selected', page'.phase = "ready"  PROVE page'.records = page'.sump
  BY DEF RecordsHere
<1>0. ASSUME Selected, page' = page  PROVE page'.records = page'.sump
  BY <1>0 DEF RecordsHere
<1>1. ASSUME NEW c \in KnownCall, Asks(c)  PROVE RecordsHere'
  <2>1. /\ Selected /\ page \in KnownPage
        /\ page' = IF c.op = "query" THEN [page EXCEPT !.phase = "loading"] ELSE page
    BY <1>1 DEF Asks, Selected, Typed
  <2>2. c.op # "query"
    BY <2>1 DEF KnownPage, Page
  <2> QED
    BY <1>0, <2>1, <2>2 DEF RecordsHere
<1>2. ASSUME NEW sump \in Sumps, Shows(sump)  PROVE RecordsHere'
  BY <1>2 DEF Shows
<1>3. CASE LeavePage
  BY <1>3 DEF LeavePage, Selected
<1>4. ASSUME NEW r \in Answer, Hears(r)  PROVE RecordsHere'
  <2>1. /\ replies # << >> /\ r = Head(replies) /\ Selected /\ page'.sump = page.sump
    BY <1>4 DEF Hears, Selected, history
  <2>2. r.call.live /\ r.call.sump = page.sump
    BY <2>1, OnTheWay, OneLess DEF AllHere, Here
  <2>3. CASE r.call.op = "query"
    BY <1>4, <2>1, <2>2, <2>3 DEF Hears, RecordsHere
  <2>4. CASE r.call.op # "query"
    <3>1. page'.phase = page.phase /\ page'.records = page.records
      BY <1>4, <2>2, <2>4 DEF Hears
    <3> QED
      BY <2>1, <3>1 DEF RecordsHere
  <2> QED
    BY <2>3, <2>4
<1>5. ASSUME NEW job \in KnownJob, Takes(job)  PROVE RecordsHere'
  BY <1>0, <1>5 DEF Takes, Selected, history, RecordsHere
<1>6. ASSUME NEW r, Gives(r)  PROVE RecordsHere'
  BY <1>0, <1>6 DEF Gives, Selected, history, RecordsHere
<1>7. ASSUME NEW i \in DOMAIN working, NEW r, Settles(i, r)  PROVE RecordsHere'
  BY <1>0, <1>7 DEF Settles, Selected, history, RecordsHere
<1>8. ASSUME NEW i \in DOMAIN working, NEW job \in KnownJob, Obeys(i, job)  PROVE RecordsHere'
  BY <1>0, <1>8 DEF Obeys, Selected, RecordsHere
<1> QED
  BY <1>1, <1>2, <1>3, <1>4, <1>5, <1>6, <1>7, <1>8 DEF Moves, RecordsHere

LEMMA CallsOfSequence ==
    ASSUME NEW S, NEW q \in Seq(S), \A x \in S : x.call \in Call
    PROVE  /\ [i \in DOMAIN q |-> q[i].call] \in Seq(Call)
           /\ Len([i \in DOMAIN q |-> q[i].call]) = Len(q)
<1> DEFINE f == [i \in DOMAIN q |-> q[i].call]
<1>1. DOMAIN q = 1 .. Len(q) /\ Len(q) \in Nat /\ \A i \in DOMAIN q : q[i] \in S
  OBVIOUS
<1>2. f \in [1 .. Len(q) -> Call]
  BY <1>1
<1> HIDE DEF f
<1>3. f \in Seq(Call) /\ Len(f) = Len(q)
  BY <1>1, <1>2, FunctionIsSequence
<1> QED
  BY <1>3 DEF f

\* The calls of the answers, in their order, when one comes and when one is read.
LEMMA AnsweredFacts ==
    ASSUME Typed
    PROVE  /\ Answered \in Seq(Call) /\ Len(Answered) = Len(replies)
           /\ \A r : r.call \in Call /\ replies' = Append(replies, r) =>
                       Answered' = Append(Answered, r.call)
           /\ replies # << >> /\ replies' = Tail(replies) =>
                /\ Answered # << >> /\ Head(Answered) = Head(replies).call
                /\ Answered' = Tail(Answered)
<1>1. replies \in Seq(Answer) /\ \A r \in Answer : r.call \in Call
  BY AnswerOf DEF Typed, KnownCall
<1>2. Answered \in Seq(Call) /\ Len(Answered) = Len(replies)
  BY <1>1, CallsOfSequence DEF Answered
<1>d. /\ DOMAIN replies = 1 .. Len(replies) /\ Len(replies) \in Nat
      /\ \A i \in DOMAIN replies : Answered[i] = replies[i].call
  BY <1>1 DEF Answered
<1>3. ASSUME NEW r, r.call \in Call, replies' = Append(replies, r)
      PROVE  Answered' = Append(Answered, r.call)
  <2>1. /\ DOMAIN replies' = 1 .. Len(replies) + 1
        /\ \A i \in DOMAIN replies' :
             replies'[i] = IF i = Len(replies) + 1 THEN r ELSE replies[i]
    <3> DEFINE T == Answer \cup {r}
    <3>1. replies \in Seq(T) /\ r \in T
      <4>1. Answer \subseteq T
        OBVIOUS
      <4> HIDE DEF T
      <4> QED
        BY <1>1, <4>1, SeqOfMore DEF T
    <3> HIDE DEF T
    <3> QED
      BY <1>3, <3>1
  <2> DEFINE x == Answered'
             y == Append(Answered, r.call)
  <2>2. x = [i \in 1 .. Len(replies) + 1 |-> replies'[i].call]
    BY <2>1 DEF Answered
  <2>3. \A i \in 1 .. Len(replies) + 1 :
          x[i] = IF i = Len(replies) + 1 THEN r.call ELSE Answered[i]
    BY <1>d, <2>1, <2>2
  <2>4. /\ y \in Seq(Call) /\ Len(y) = Len(replies) + 1
        /\ \A i \in 1 .. Len(replies) + 1 :
             y[i] = IF i = Len(replies) + 1 THEN r.call ELSE Answered[i]
    BY <1>2, <1>3
  <2>5. x \in Seq(Call) /\ Len(x) = Len(replies) + 1
    <3>1. x \in [1 .. Len(replies) + 1 -> Call]
      <4>1. \A i \in 1 .. Len(replies) + 1 : i # Len(replies) + 1 => Answered[i] \in Call
        BY <1>2, <1>d
      <4> HIDE DEF x
      <4> QED
        BY <1>3, <2>2, <2>3, <4>1
    <3>2. Len(replies) + 1 \in Nat
      BY <1>d
    <3> HIDE DEF x
    <3> QED
      BY <3>1, <3>2, FunctionIsSequence
  <2> HIDE DEF x, y
  <2>6. x = y
    BY <2>3, <2>4, <2>5, SameSequence
  <2> QED
    BY <2>6 DEF x, y
<1>4. ASSUME replies # << >>, replies' = Tail(replies)
      PROVE  /\ Answered # << >> /\ Head(Answered) = Head(replies).call
             /\ Answered' = Tail(Answered)
  <2>1. /\ 1 \in DOMAIN replies /\ Head(replies) = replies[1]
        /\ DOMAIN replies' = 1 .. Len(replies) - 1
        /\ \A i \in DOMAIN replies' : replies'[i] = replies[i + 1] /\ i + 1 \in DOMAIN replies
    BY <1>1, <1>4
  <2>2. Answered # << >> /\ Head(Answered) = Answered[1]
    BY <1>2, <1>d, <2>1
  <2> DEFINE x == Answered'
             y == Tail(Answered)
  <2>3. x = [i \in 1 .. Len(replies) - 1 |-> replies'[i].call]
    BY <2>1 DEF Answered
  <2>4. \A i \in 1 .. Len(replies) - 1 : x[i] = Answered[i + 1] /\ x[i] \in Call
    <3> TAKE i \in 1 .. Len(replies) - 1
    <3>1. x[i] = replies[i + 1].call /\ i + 1 \in DOMAIN replies
      BY <2>1, <2>3
    <3>2. Answered[i + 1] \in Call
      BY <1>2, <1>d, <3>1
    <3> QED
      BY <1>d, <3>1, <3>2
  <2>5. /\ y \in Seq(Call) /\ Len(y) = Len(replies) - 1
        /\ \A i \in 1 .. Len(replies) - 1 : y[i] = Answered[i + 1]
    BY <1>2, <2>2
  <2>6. x \in Seq(Call) /\ Len(x) = Len(replies) - 1
    <3>1. Len(replies) - 1 \in Nat
      BY <1>d, <2>1
    <3> HIDE DEF x
    <3>2. x \in [1 .. Len(replies) - 1 -> Call]
      BY <2>3, <2>4
    <3> QED
      BY <3>1, <3>2, FunctionIsSequence
  <2> HIDE DEF x, y
  <2>7. x = y
    BY <2>4, <2>5, <2>6, SameSequence
  <2> QED
    BY <1>d, <2>1, <2>2, <2>7 DEF x, y
<1> QED
  BY <1>2, <1>3, <1>4

LEMMA CallsKnown ==
    ASSUME Typed
    PROVE  requests \in Seq(Call) /\ (requests # << >> => Head(requests) \in Call)
<1>1. KnownCall \subseteq Call
  BY DEF KnownCall
<1>2. requests \in Seq(KnownCall)
  BY DEF Typed
<1> QED
  BY <1>1, <1>2, SeqOfMore

LEMMA CallNext ==
    ASSUME NEW r \in Answer'
    PROVE  r.call \in Call
BY AnswerNext DEF KnownCall

LEMMA LoadingStep ==
    ASSUME Typed, Loading, Moves, Grows
    PROVE  Loading'
<1> SUFFICES ASSUME page' # Null, page'.phase = "loading"
             PROVE  Has(requests', "query") \/ Has(Taken', "query") \/ Has(Answered', "query")
  BY DEF Loading
<1> DEFINE Goal == Has(requests', "query") \/ Has(Taken', "query") \/ Has(Answered', "query")
<1> SUFFICES Goal
  OBVIOUS
<1>w. /\ requests \in Seq(KnownCall) /\ working \in Seq(KnownJob) /\ replies \in Seq(Answer)
      /\ requests \in Seq(Call) /\ Answered \in Seq(Call)
  BY OnTheWay, CallsKnown, AnsweredFacts
<1>q. /\ \A c \in Call : Has(requests, "query") => Has(Append(requests, c), "query")
      /\ \A c \in Call : Has(Answered, "query") => Has(Append(Answered, c), "query")
  BY <1>w, HasAppend
<1>k. KnownCall \subseteq Call
  BY DEF KnownCall
<1>o. ASSUME page # Null, page.phase = "loading"
      PROVE  Has(requests, "query") \/ Has(Taken, "query") \/ Has(Answered, "query")
  BY <1>o DEF Loading
<1>t. ASSUME NEW i \in DOMAIN working', working'[i].call.live, working'[i].call.op = "query"
      PROVE  Has(Taken', "query")
  BY <1>t DEF Has, Taken
<1>p. ASSUME Has(Taken, "query")
      PROVE  \E i \in DOMAIN working : working[i].call.live /\ working[i].call.op = "query"
  BY <1>p DEF Has, Taken
<1>1. ASSUME NEW c \in KnownCall, Asks(c)  PROVE Goal
  <2>1. /\ page # Null /\ c.live /\ requests' = Append(requests, c)
        /\ page' = IF c.op = "query" THEN [page EXCEPT !.phase = "loading"] ELSE page
        /\ UNCHANGED <<working, replies>>
    BY <1>1 DEF Asks
  <2>2. Taken' = Taken /\ Answered' = Answered
    BY <2>1 DEF Taken, Answered
  <2>3. CASE c.op = "query"
    BY <1>w, <1>k, <2>1, <2>3, HasAppend
  <2>4. CASE c.op # "query"
    BY <1>q, <1>k, <1>o, <2>1, <2>2, <2>4
  <2> QED
    BY <2>3, <2>4
<1>2. ASSUME NEW sump \in Sumps, Shows(sump)  PROVE Goal
  <2>1. PICK a \in Call, b \in Call, d \in Call :
          /\ a.live /\ a.op = "query"
          /\ requests' = Append(Append(Append(requests, a), b), d)
    <3>1. \A op \in {"query", "session", "rules"} : Opening(op, sump) \in Call
      BY <1>2, <1>k DEF Shows
    <3>2. Opening("query", sump).live /\ Opening("query", sump).op = "query"
      BY DEF Opening
    <3> QED
      BY <1>2, <3>1, <3>2 DEF Shows
  <2>2. PICK q \in Seq(Call) : q = Append(requests, a) /\ Has(q, "query")
    <3>1. Append(requests, a) \in Seq(Call)
      BY <1>w
    <3> QED
      BY <1>w, <2>1, <3>1, HasAppend
  <2>3. PICK p \in Seq(Call) : p = Append(q, b) /\ Has(p, "query")
    <3>1. Append(q, b) \in Seq(Call)
      OBVIOUS
    <3> QED
      BY <2>2, <3>1, HasAppend
  <2>4. requests' = Append(p, d)
    BY <2>1, <2>2, <2>3
  <2> QED
    BY <2>3, <2>4, HasAppend
<1>3. CASE LeavePage
  BY <1>3 DEF LeavePage
<1>4. ASSUME NEW r \in Answer, Hears(r)  PROVE Goal
  <2>1. /\ replies # << >> /\ replies' = Tail(replies) /\ r = Head(replies)
        /\ UNCHANGED working
        /\ requests' = requests \/ \E d \in KnownCall : requests' = Append(requests, d)
    BY <1>4 DEF Hears
  <2>2. /\ Answered # << >> /\ Head(Answered) = r.call /\ Answered' = Tail(Answered)
        /\ Taken' = Taken
    BY <2>1, AnsweredFacts DEF Taken
  <2>3. ~(r.call.live /\ r.call.op = "query") /\ page # Null /\ page.phase = "loading"
    BY <1>4 DEF Hears
  <2>4. Has(Answered, "query") => Has(Answered', "query")
    BY <1>w, <2>2, <2>3, HasTail
  <2> QED
    BY <1>q, <1>k, <1>o, <2>1, <2>2, <2>3, <2>4
<1>h. ASSUME requests # << >>, requests' = Tail(requests), Has(requests, "query")
      PROVE  Has(requests', "query") \/ (Head(requests).live /\ Head(requests).op = "query")
  BY <1>h, <1>w, HasTail
<1>5. ASSUME NEW job \in KnownJob, Takes(job)  PROVE Goal
  <2>1. /\ requests # << >> /\ requests' = Tail(requests) /\ working' = Append(working, job)
        /\ job.call = Head(requests) /\ UNCHANGED <<page, replies>>
    BY <1>5 DEF Takes
  <2>2. Has(Taken, "query") \/ (job.call.live /\ job.call.op = "query")
          => Has(Taken', "query")
    BY <1>w, <1>t, <1>p, <2>1, OneMore
  <2>3. Answered' = Answered
    BY <2>1 DEF Answered
  <2> QED
    BY <1>h, <1>o, <2>1, <2>2, <2>3
<1>6. ASSUME NEW r, Gives(r)  PROVE Goal
  <2>1. /\ requests # << >> /\ requests' = Tail(requests) /\ r.call = Head(requests)
        /\ r \in Answer' /\ replies' = Append(replies, r)
        /\ UNCHANGED <<page, working>> /\ r.call.op # "query"
    BY <1>6 DEF Gives
  <2>2. r.call \in Call /\ Answered' = Append(Answered, r.call) /\ Taken' = Taken
    BY <2>1, CallNext, AnsweredFacts DEF Taken
  <2> QED
    BY <1>h, <1>o, <1>q, <2>1, <2>2
<1>7. ASSUME NEW i \in DOMAIN working, NEW r, Settles(i, r)  PROVE Goal
  <2>1. /\ working' = RemoveAt(working, i) /\ r \in Answer' /\ r.call = working[i].call
        /\ replies' = Append(replies, r) /\ UNCHANGED <<page, requests>>
    BY <1>7 DEF Settles
  <2>2. r.call \in Call /\ Answered' = Append(Answered, r.call)
    BY <2>1, CallNext, AnsweredFacts
  <2>3. Has(Taken, "query") => Has(Taken', "query") \/ (r.call.live /\ r.call.op = "query")
    BY <1>w, <1>t, <1>p, <2>1, RemoveAtElements
  <2>4. r.call.live /\ r.call.op = "query" => Has(Answered', "query")
    BY <1>w, <2>2, HasAppend
  <2> QED
    BY <1>o, <1>q, <2>1, <2>2, <2>3, <2>4
<1>8. ASSUME NEW i \in DOMAIN working, NEW job \in KnownJob, Obeys(i, job)  PROVE Goal
  <2>1. /\ working' = [working EXCEPT ![i] = job] /\ job.call = working[i].call
        /\ UNCHANGED <<page, requests, replies>>
    BY <1>8 DEF Obeys
  <2>2. Has(Taken, "query") => Has(Taken', "query")
    BY <1>w, <1>t, <1>p, <2>1
  <2>3. Answered' = Answered
    BY <2>1 DEF Answered
  <2> QED
    BY <1>o, <2>1, <2>2, <2>3
<1> QED
  BY <1>1, <1>2, <1>3, <1>4, <1>5, <1>6, <1>7, <1>8 DEF Moves

-----------------------------------------------------------------------------
(***************************************************************************)
(* The notices: whose they are.                                            *)
(***************************************************************************)

\* What adds or takes a call of another kind changes nothing.
Bears(c) == c.live /\ Chain(c)

LEMMA LastIfAsked ==
    ASSUME NEW R \in Seq(Call), NEW A, NEW sump, NEW shown, NEW right,
           NoticesLast(R, A, sump, shown, right), NEW c \in Call, ~Bears(c)
    PROVE  NoticesLast(Append(R, c), A, sump, shown, right)
<1>1. \A op \in {"session", "interrupted"} :
        /\ Has(Append(R, c), op) <=> Has(R, op)
        /\ Ends(Append(R, c), op, sump) <=> Ends(R, op, sump)
  BY HasAppend, EndsAppend DEF Bears, Chain
<1> QED
  BY <1>1 DEF NoticesLast

LEMMA LastIfTaken ==
    ASSUME NEW R \in Seq(Call), R # << >>, NEW A, NEW sump, NEW shown, NEW right,
           NoticesLast(R, A, sump, shown, right), ~Bears(Head(R))
    PROVE  NoticesLast(Tail(R), A, sump, shown, right)
<1>1. \A op \in {"session", "interrupted"} :
        /\ Has(Tail(R), op) <=> Has(R, op)
        /\ Ends(R, op, sump) => Ends(Tail(R), op, sump)
  <2>1. \A op \in {"session", "interrupted"} : Has(Tail(R), op) <=> Has(R, op)
    BY HasTail DEF Bears, Chain
  <2>2. \A op \in {"session", "interrupted"} : Ends(R, op, sump) => Has(R, op)
    BY EndsHas
  <2> QED
    BY <2>1, <2>2, EndsTail
<1> QED
  BY <1>1 DEF NoticesLast

LEMMA LastIfAnswered ==
    ASSUME NEW R, NEW A \in Seq(Call), NEW sump, NEW shown, NEW right,
           NoticesLast(R, A, sump, shown, right), NEW c \in Call, ~Bears(c)
    PROVE  NoticesLast(R, Append(A, c), sump, shown, right)
<1>1. \A op \in {"session", "interrupted"} :
        /\ Has(Append(A, c), op) <=> Has(A, op)
        /\ Ends(Append(A, c), op, sump) <=> Ends(A, op, sump)
  BY HasAppend, EndsAppend DEF Bears, Chain
<1> QED
  BY <1>1 DEF NoticesLast

LEMMA LastIfRead ==
    ASSUME NEW R, NEW A \in Seq(Call), A # << >>, NEW sump, NEW shown, NEW right,
           NoticesLast(R, A, sump, shown, right), ~Bears(Head(A))
    PROVE  NoticesLast(R, Tail(A), sump, shown, right)
<1>1. \A op \in {"session", "interrupted"} :
        /\ Has(Tail(A), op) <=> Has(A, op)
        /\ Ends(A, op, sump) => Ends(Tail(A), op, sump)
  <2>1. \A op \in {"session", "interrupted"} : Has(Tail(A), op) <=> Has(A, op)
    BY HasTail DEF Bears, Chain
  <2>2. \A op \in {"session", "interrupted"} : Ends(A, op, sump) => Has(A, op)
    BY EndsHas
  <2> QED
    BY <2>1, <2>2, EndsTail
<1> QED
  BY <1>1 DEF NoticesLast

\* A call that bears on the notices is answered where it was asked.
LEMMA LastIfGiven ==
    ASSUME NEW R \in Seq(Call), R # << >>, NEW A \in Seq(Call), NEW sump, NEW shown, NEW right,
           NoticesLast(R, A, sump, shown, right), NEW c \in Call, c = Head(R), Bears(c)
    PROVE  NoticesLast(Tail(R), Append(A, c), sump, shown, right)
<1>1. \A op : Has(R, op) <=> Has(Tail(R), op) \/ (c.live /\ c.op = op)
  BY HasTail
<1>2. \A op : Has(Append(A, c), op) <=> Has(A, op) \/ (c.live /\ c.op = op)
  BY HasAppend
<1>3. \A op : Ends(R, op, sump) =>
                IF Has(Tail(R), op) THEN Ends(Tail(R), op, sump)
                ELSE c.live /\ c.op = op /\ c.sump = sump
  BY EndsTail
<1>4. \A op : Ends(Append(A, c), op, sump) <=>
                IF c.live /\ c.op = op THEN c.sump = sump ELSE Ends(A, op, sump)
  BY EndsAppend
<1>5. CASE c.op = "session"
  BY <1>1, <1>2, <1>3, <1>4, <1>5 DEF NoticesLast, Bears
<1>6. CASE c.op = "interrupted"
  BY <1>1, <1>2, <1>3, <1>4, <1>6 DEF NoticesLast, Bears
<1> QED
  BY <1>5, <1>6 DEF Bears, Chain

\* When the session is read its notices are asked for; when they are read they
\* are those of the sump they were asked for.
LEMMA LastIfSession ==
    ASSUME NEW R \in Seq(Call), NEW A \in Seq(Call), A # << >>, NEW sump, NEW shown, NEW right,
           NoticesLast(R, A, sump, shown, right), NEW c \in Call, c = Head(A),
           c.live, c.op = "session",
           NEW d \in Call, d.live, d.op = "interrupted", d.sump = c.sump
    PROVE  NoticesLast(Append(R, d), Tail(A), sump, shown, right)
<1>1. \A op : Has(A, op) <=> Has(Tail(A), op) \/ (c.live /\ c.op = op)
  BY HasTail
<1>2. \A op : Has(Append(R, d), op) <=> Has(R, op) \/ (d.live /\ d.op = op)
  BY HasAppend
<1>3. \A op : Ends(A, op, sump) =>
                IF Has(Tail(A), op) THEN Ends(Tail(A), op, sump)
                ELSE c.live /\ c.op = op /\ c.sump = sump
  BY EndsTail
<1>4. \A op : Ends(Append(R, d), op, sump) <=>
                IF d.live /\ d.op = op THEN d.sump = sump ELSE Ends(R, op, sump)
  BY EndsAppend
<1> QED
  BY <1>1, <1>2, <1>3, <1>4 DEF NoticesLast

LEMMA LastIfNotices ==
    ASSUME NEW R, NEW A \in Seq(Call), A # << >>, NEW sump, NEW shown, NEW right,
           NoticesLast(R, A, sump, shown, right), NEW c \in Call, c = Head(A),
           c.live, c.op = "interrupted",
           NEW new, c.sump = sump => new \subseteq right
    PROVE  NoticesLast(R, Tail(A), sump, new, right)
<1>1. \A op : Has(A, op) <=> Has(Tail(A), op) \/ (c.live /\ c.op = op)
  BY HasTail
<1>3. \A op : Ends(A, op, sump) =>
                IF Has(Tail(A), op) THEN Ends(Tail(A), op, sump)
                ELSE c.live /\ c.op = op /\ c.sump = sump
  BY EndsTail
<1> QED
  BY <1>1, <1>3 DEF NoticesLast

LEMMA LastIfLess ==
    ASSUME NEW R, NEW A, NEW sump, NEW shown, NEW right, NoticesLast(R, A, sump, shown, right),
           NEW less, NEW more, less \subseteq shown, right \cap less \subseteq more
    PROVE  NoticesLast(R, A, sump, less, more)
BY DEF NoticesLast

LEMMA LastNoticesStep ==
    ASSUME Typed, LastNotices, Moves, Grows
    PROVE  LastNotices'
<1> SUFFICES ASSUME page' # Null, NEW own, own = Own(page.sump)'
             PROVE  NoticesLast(requests', Answered', page'.sump, page'.notices, own)
  BY DEF LastNotices
<1> DEFINE Goal == NoticesLast(requests', Answered', page'.sump, page'.notices, own)
<1> SUFFICES Goal
  OBVIOUS
<1>w. /\ requests \in Seq(KnownCall) /\ working \in Seq(KnownJob) /\ replies \in Seq(Answer)
      /\ requests \in Seq(Call) /\ Answered \in Seq(Call)
      /\ requests # << >> => Head(requests) \in Call
  BY OnTheWay, CallsKnown, AnsweredFacts
<1>k. KnownCall \subseteq Call
  BY DEF KnownCall
<1>o. ASSUME page # Null, page'.sump = page.sump, NEW less, less \subseteq page.notices
      PROVE  NoticesLast(requests, Answered, page'.sump, less, own)
  <2>1. Own(page.sump) \subseteq own
    BY <1>o DEF Own, Grows
  <2>2. NoticesLast(requests, Answered, page'.sump, page.notices, Own(page.sump))
    BY <1>o DEF LastNotices
  <2>3. Own(page.sump) \cap less \subseteq own
    BY <2>1
  <2> QED
    BY <1>o, <2>2, <2>3, LastIfLess
<1>1. ASSUME NEW c \in KnownCall, Asks(c)  PROVE Goal
  <2>1. /\ page # Null /\ page \in KnownPage /\ requests' = Append(requests, c)
        /\ page' = IF c.op = "query" THEN [page EXCEPT !.phase = "loading"] ELSE page
        /\ UNCHANGED replies /\ ~Bears(c)
    BY <1>1 DEF Asks, Typed, Bears, Chain
  <2>2. page'.sump = page.sump /\ page'.notices = page.notices
    BY <2>1 DEF KnownPage, Page
  <2>3. Answered' = Answered
    BY <2>1 DEF Answered
  <2> QED
    BY <1>k, <1>o, <1>w, <2>1, <2>2, <2>3, LastIfAsked
<1>2. ASSUME NEW sump \in Sumps, Shows(sump)  PROVE Goal
  <2>1. PICK a \in Call, b \in Call, d \in Call :
          /\ b.live /\ b.op = "session" /\ b.sump = sump /\ d.op = "rules"
          /\ requests' = Append(Append(Append(requests, a), b), d)
    <3>1. \A op \in {"query", "session", "rules"} : Opening(op, sump) \in Call
      BY <1>2, <1>k DEF Shows
    <3>2. /\ Opening("session", sump).live /\ Opening("session", sump).op = "session"
          /\ Opening("session", sump).sump = sump /\ Opening("rules", sump).op = "rules"
      BY DEF Opening
    <3> QED
      BY <1>2, <3>1, <3>2 DEF Shows
  <2>2. PICK q \in Seq(Call) : q = Append(requests, a)
    <3>1. Append(requests, a) \in Seq(Call)
      BY <1>w
    <3> QED
      BY <3>1
  <2>3. PICK p \in Seq(Call) : p = Append(q, b)
    <3>1. Append(q, b) \in Seq(Call)
      OBVIOUS
    <3> QED
      BY <3>1
  <2>4. Ends(p, "session", sump)
    BY <2>1, <2>3, EndsAppend
  <2>5. requests' = Append(p, d)
    BY <2>1, <2>2, <2>3
  <2>6. Ends(requests', "session", sump)
    BY <2>1, <2>4, <2>5, EndsAppend
  <2>7. page'.sump = sump
    BY <1>2 DEF Shows
  <2> QED
    BY <2>6, <2>7 DEF NoticesLast
<1>3. CASE LeavePage
  BY <1>3 DEF LeavePage
<1>4. ASSUME NEW r \in Answer, Hears(r)  PROVE Goal
  <2>1. /\ replies # << >> /\ replies' = Tail(replies) /\ r = Head(replies)
    BY <1>4 DEF Hears
  <2>2. /\ Answered # << >> /\ Head(Answered) = r.call /\ Answered' = Tail(Answered)
        /\ r.call \in Call
    BY <2>1, <1>k, AnsweredFacts, AnswerOf
  <2>3. page # Null /\ page'.sump = page.sump
    BY <1>4 DEF Hears
  <2>4. \/ UNCHANGED requests /\ r.call.op \notin ChangeOps \cup {"session"}
        \/ \E d \in Call :
             /\ requests' = Append(requests, d)
             /\ d.live = r.call.live /\ d.sump = r.call.sump
             /\ \/ r.call.op = "query" /\ d.op = "evaluate"
                \/ r.call.op = "session" /\ d.op = "interrupted"
                \/ r.call.op \in ChangeOps /\ d.op = "rules"
    BY <1>4, <1>k DEF Hears
  <2>5. CASE ~Bears(r.call)
    <3>1. page'.notices \subseteq page.notices
      BY <1>4, <2>5 DEF Hears, Bears, Chain
    <3>2. NoticesLast(requests, Answered, page'.sump, page'.notices, own)
      BY <1>o, <2>3, <3>1
    <3>3. NoticesLast(requests, Answered', page'.sump, page'.notices, own)
      BY <1>w, <2>2, <2>5, <3>2, LastIfRead
    <3>4. UNCHANGED requests
          \/ \E d \in Call : requests' = Append(requests, d) /\ ~Bears(d)
      BY <2>4, <2>5 DEF Bears, Chain
    <3> QED
      BY <1>w, <3>3, <3>4, LastIfAsked
  <2>6. CASE r.call.live /\ r.call.op = "session"
    <3>1. page'.notices = page.notices
      BY <1>4, <2>6 DEF Hears
    <3>2. PICK d \in Call : /\ requests' = Append(requests, d)
                            /\ d.live /\ d.sump = r.call.sump /\ d.op = "interrupted"
      BY <2>4, <2>6 DEF ChangeOps
    <3>3. NoticesLast(requests, Answered, page'.sump, page'.notices, own)
      BY <1>o, <2>3, <3>1
    <3> QED
      BY <1>w, <2>2, <2>6, <3>2, <3>3, LastIfSession
  <2>7. CASE r.call.live /\ r.call.op = "interrupted"
    <3>1. page'.notices = {s \in r.value : sessions[s].sump = r.call.sump}
      BY <1>4, <2>7 DEF Hears
    <3>2. UNCHANGED requests /\ UNCHANGED sessions
      BY <1>4, <2>4, <2>7 DEF Hears, ChangeOps, catalog
    <3>3. r.call.sump = page'.sump => page'.notices \subseteq own
      <4>1. r.value \subseteq DOMAIN sessions
        BY <2>7, AnswerOf DEF ValueOf, SessionOps
      <4> QED
        BY <3>1, <3>2, <4>1 DEF Own
    <3>4. NoticesLast(requests, Answered, page'.sump, page.notices, own)
      BY <1>o, <2>3
    <3>5. NoticesLast(requests, Answered', page'.sump, page'.notices, own)
      BY <1>w, <2>2, <2>7, <3>3, <3>4, LastIfNotices
    <3> QED
      BY <3>2, <3>5
  <2> QED
    BY <2>5, <2>6, <2>7 DEF Bears, Chain
<1>5. ASSUME NEW job \in KnownJob, Takes(job)  PROVE Goal
  <2>1. /\ requests # << >> /\ requests' = Tail(requests)
        /\ job.call = Head(requests) /\ UNCHANGED <<page, replies>>
    BY <1>5 DEF Takes
  <2>2. ~Bears(Head(requests))
    BY <2>1 DEF KnownJob, Bears, Chain
  <2>3. Answered' = Answered
    BY <2>1 DEF Answered
  <2> QED
    BY <1>o, <1>w, <2>1, <2>2, <2>3, LastIfTaken
<1>6. ASSUME NEW r, Gives(r)  PROVE Goal
  <2>1. /\ requests # << >> /\ requests' = Tail(requests) /\ r.call = Head(requests)
        /\ replies' = Append(replies, r) /\ UNCHANGED page
    BY <1>6 DEF Gives
  <2>2. r.call \in Call /\ Answered' = Append(Answered, r.call)
    BY <1>w, <2>1, AnsweredFacts
  <2>3. NoticesLast(requests, Answered, page'.sump, page'.notices, own)
    BY <1>o, <2>1
  <2>4. CASE Bears(r.call)
    BY <1>w, <2>1, <2>2, <2>3, <2>4, LastIfGiven
  <2>5. CASE ~Bears(r.call)
    <3>1. NoticesLast(requests', Answered, page'.sump, page'.notices, own)
      BY <1>w, <2>1, <2>3, <2>5, LastIfTaken
    <3> QED
      BY <1>w, <2>2, <2>5, <3>1, LastIfAnswered
  <2> QED
    BY <2>4, <2>5
<1>7. ASSUME NEW i \in DOMAIN working, NEW r, Settles(i, r)  PROVE Goal
  <2>1. /\ r.call = working[i].call /\ replies' = Append(replies, r)
        /\ UNCHANGED <<page, requests>>
    BY <1>7 DEF Settles
  <2>2. r.call \in Call /\ ~Bears(r.call)
    BY <1>k, <2>1, WorkingJob DEF KnownJob, Bears, Chain
  <2>3. Answered' = Append(Answered, r.call)
    BY <2>1, <2>2, AnsweredFacts
  <2> QED
    BY <1>o, <1>w, <2>1, <2>2, <2>3, LastIfAnswered
<1>8. ASSUME NEW i \in DOMAIN working, NEW job \in KnownJob, Obeys(i, job)  PROVE Goal
  <2>1. UNCHANGED <<page, requests, replies>>
    BY <1>8 DEF Obeys
  <2>2. Answered' = Answered
    BY <2>1 DEF Answered
  <2> QED
    BY <1>o, <2>1, <2>2
<1> QED
  BY <1>1, <1>2, <1>3, <1>4, <1>5, <1>6, <1>7, <1>8 DEF Moves

-----------------------------------------------------------------------------
(***************************************************************************)
(* The rules.                                                              *)
(***************************************************************************)

LEMMA RulesHereStep ==
    ASSUME Typed, AllHere, RulesHere, Moves, Grows
    PROVE  RulesHere'
<1> DEFINE Asking(q) == \E i \in DOMAIN q : q[i].op \in ChangeOps \cup {"rules"}
           Changed(a) == \E i \in DOMAIN a : a[i].call.op \in ChangeOps
           Goal == \/ Asking(requests') \/ Changed(replies')
                   \/ LastSays(replies', {"rules"}, page'.rules,
                               {ListEventRulesForSump(page.sump)}')
<1> SUFFICES ASSUME Selected'  PROVE Goal
  BY DEF RulesHere, RulesAsked
<1>w. /\ requests \in Seq(KnownCall) /\ working \in Seq(KnownJob) /\ replies \in Seq(Answer)
  BY OnTheWay
<1>o. ASSUME Selected
      PROVE  \/ Asking(requests) \/ Changed(replies)
             \/ LastSays(replies, {"rules"}, page.rules, {ListEventRulesForSump(page.sump)})
  BY <1>o DEF RulesHere, RulesAsked
<1>k. ASSUME UNCHANGED rules, NEW sump
      PROVE  {ListEventRulesForSump(sump)}' = {ListEventRulesForSump(sump)}
  BY <1>k DEF ListEventRulesForSump, RulesOf
<1>s. ASSUME UNCHANGED <<rules, replies>>, page'.sump = page.sump, page'.rules = page.rules,
             LastSays(replies, {"rules"}, page.rules, {ListEventRulesForSump(page.sump)})
      PROVE  LastSays(replies', {"rules"}, page'.rules, {ListEventRulesForSump(page.sump)}')
  <2> SUFFICES ASSUME NEW sump, sump = page.sump
               PROVE  LastSays(replies', {"rules"}, page'.rules, {ListEventRulesForSump(sump)}')
    BY <1>s
  <2> QED
    BY <1>k, <1>s
<1>h. ASSUME requests # << >>, requests' = Tail(requests), Asking(requests),
             Head(requests).op \notin ChangeOps \cup {"rules"}
      PROVE  Asking(requests')
  <2>1. PICK i \in DOMAIN requests : requests[i].op \in ChangeOps \cup {"rules"}
    BY <1>h
  <2>2. i # 1 /\ i - 1 \in DOMAIN requests' /\ requests'[i - 1] = requests[i]
    BY <1>h, <1>w, <2>1, OneLess
  <2> QED
    BY <2>1, <2>2
<1>m. ASSUME NEW c \in KnownCall, requests' = Append(requests, c),
             Asking(requests) \/ c.op \in ChangeOps \cup {"rules"}
      PROVE  Asking(requests')
  BY <1>m, <1>w, OneMore
<1>a. ASSUME NEW r \in Answer', replies' = Append(replies, r)
      PROVE  /\ Changed(replies) \/ r.call.op \in ChangeOps => Changed(replies')
             /\ \A shown, right :
                  (IF r.call.op = "rules" THEN r.value \in right
                   ELSE LastSays(replies, {"rules"}, shown, right))
                  => LastSays(replies', {"rules"}, shown, right)
  <2>1. replies \in Seq(Answer')
    BY <1>w, KnownGrows, SeqOfMore
  <2>2. \A shown, right :
          (IF r.call.op \in {"rules"} THEN r.value \in right
           ELSE LastSays(replies, {"rules"}, shown, right))
          => LastSays(Append(replies, r), {"rules"}, shown, right)
    BY <1>a, <2>1, LastSaysAppend
  <2>3. Changed(replies) \/ r.call.op \in ChangeOps => Changed(replies')
    BY <1>a, <2>1, OneMore
  <2> QED
    BY <1>a, <2>2, <2>3
<1>1. ASSUME NEW c \in KnownCall, Asks(c)  PROVE Goal
  <2>1. /\ Selected /\ page \in KnownPage /\ requests' = Append(requests, c)
        /\ page' = IF c.op = "query" THEN [page EXCEPT !.phase = "loading"] ELSE page
        /\ UNCHANGED <<replies, rules>>
    BY <1>1 DEF Asks, Selected, Typed, catalog
  <2>2. page'.sump = page.sump /\ page'.rules = page.rules
    BY <2>1 DEF KnownPage, Page
  <2>3. Changed(replies) => Changed(replies')
    BY <2>1
  <2> QED
    BY <1>m, <1>o, <1>s, <2>1, <2>2, <2>3
<1>2. ASSUME NEW sump \in Sumps, Shows(sump)  PROVE Goal
  <2>1. PICK a \in KnownCall, b \in KnownCall, d \in KnownCall :
          d.op = "rules" /\ requests' = Append(Append(Append(requests, a), b), d)
    <3>1. \A op \in {"query", "session", "rules"} : Opening(op, sump) \in KnownCall
      BY <1>2 DEF Shows
    <3>2. Opening("rules", sump).op = "rules"
      BY DEF Opening
    <3> QED
      BY <1>2, <3>1, <3>2 DEF Shows
  <2>2. Len(requests) + 3 \in DOMAIN requests' /\ requests'[Len(requests) + 3] = d
    BY <1>w, <2>1
  <2> QED
    BY <2>1, <2>2
<1>3. CASE LeavePage
  BY <1>3 DEF LeavePage, Selected
<1>4. ASSUME NEW r \in Answer, Hears(r)  PROVE Goal
  <2>1. /\ replies # << >> /\ replies' = Tail(replies) /\ r = Head(replies)
        /\ Selected /\ UNCHANGED rules /\ page'.sump = page.sump
    BY <1>4 DEF Hears, Selected, catalog, history
  <2>2. r.call.live
    BY <1>w, <2>1, OneLess DEF AllHere, Here
  <2>3. page'.rules = IF r.call.op = "rules" THEN r.value ELSE page.rules
    BY <1>4, <2>2 DEF Hears
  <2>4. requests' = requests \/ \E d \in KnownCall : requests' = Append(requests, d)
    BY <1>4 DEF Hears
  <2>5. CASE r.call.op \in ChangeOps
    <3>1. PICK d \in KnownCall : requests' = Append(requests, d) /\ d.op = "rules"
      BY <1>4, <2>5 DEF Hears, ChangeOps
    <3> QED
      BY <1>m, <3>1
  <2>6. CASE r.call.op \notin ChangeOps
    <3>1. CASE Asking(requests)
      BY <1>m, <2>4, <3>1
    <3>2. CASE Changed(replies)
      <4>1. PICK i \in DOMAIN replies : replies[i].call.op \in ChangeOps
        BY <3>2
      <4>2. i # 1 /\ i - 1 \in DOMAIN replies' /\ replies'[i - 1] = replies[i]
        BY <1>w, <2>1, <2>6, <4>1, OneLess
      <4> QED
        BY <4>1, <4>2
    <3>3. CASE LastSays(replies, {"rules"}, page.rules, {ListEventRulesForSump(page.sump)})
      <4>1. PICK right : right = {ListEventRulesForSump(page.sump)}
        OBVIOUS
      <4>2. right = {ListEventRulesForSump(page.sump)}'
        <5> SUFFICES ASSUME NEW sump, sump = page.sump
                     PROVE  right = {ListEventRulesForSump(sump)}'
          BY <2>1
        <5> QED
          BY <1>k, <2>1, <4>1
      <4>3. LastSays(Tail(replies), {"rules"},
                     IF r.call.op \in {"rules"} THEN r.value ELSE page.rules, right)
        BY <1>w, <2>1, <3>3, <4>1, LastSaysTail
      <4>4. page'.rules = IF r.call.op \in {"rules"} THEN r.value ELSE page.rules
        BY <2>3
      <4> QED
        BY <2>1, <4>2, <4>3, <4>4
    <3> QED
      BY <1>o, <2>1, <3>1, <3>2, <3>3
  <2> QED
    BY <2>5, <2>6
<1>5. ASSUME NEW job \in KnownJob, Takes(job)  PROVE Goal
  <2>1. /\ requests # << >> /\ requests' = Tail(requests) /\ job.call = Head(requests)
        /\ UNCHANGED <<page, replies, rules>> /\ Selected
    BY <1>5 DEF Takes, Selected, catalog, history
  <2>2. Head(requests).op \notin ChangeOps \cup {"rules"}
    BY <2>1 DEF KnownJob, ChangeOps
  <2>3. Changed(replies) => Changed(replies')
    BY <2>1
  <2> QED
    BY <1>h, <1>o, <1>s, <2>1, <2>2, <2>3
<1>6. ASSUME NEW r, Gives(r)  PROVE Goal
  <2>1. /\ requests # << >> /\ requests' = Tail(requests) /\ r.call = Head(requests)
        /\ r \in Answer' /\ replies' = Append(replies, r) /\ UNCHANGED page /\ Selected
    BY <1>6 DEF Gives, Selected, history
  <2>2. CASE r.call.op \in ChangeOps
    BY <1>a, <2>1, <2>2
  <2>3. CASE r.call.op \notin ChangeOps
    <3>1. UNCHANGED rules
      BY <1>6, <2>3 DEF Gives
    <3>2. PICK right : right = {ListEventRulesForSump(page.sump)}
      OBVIOUS
    <3>3. right = {ListEventRulesForSump(page.sump)}'
      <4> SUFFICES ASSUME NEW sump, sump = page.sump
                   PROVE  right = {ListEventRulesForSump(sump)}'
        BY <2>1
      <4> QED
        BY <1>k, <3>1, <3>2
    <3>4. CASE r.call.op = "rules"
      <4>1. r.value = ListEventRulesForSump(r.call.sump)
        BY <1>6, <3>4 DEF Gives
      <4>2. r.call.sump = page.sump
        BY <1>w, <2>1, OneLess DEF AllHere, Here
      <4>3. LastSays(replies', {"rules"}, page'.rules, right)
        BY <1>a, <2>1, <3>2, <3>4, <4>1, <4>2
      <4> QED
        BY <3>3, <4>3
    <3>5. CASE r.call.op # "rules"
      <4>1. Asking(requests) => Asking(requests')
        BY <1>h, <2>1, <2>3, <3>5
      <4>2. Changed(replies) => Changed(replies')
        BY <1>a, <2>1
      <4>3. LastSays(replies, {"rules"}, page.rules, right)
              => LastSays(replies', {"rules"}, page'.rules, right)
        BY <1>a, <2>1, <3>5
      <4> QED
        BY <1>o, <2>1, <3>2, <3>3, <4>1, <4>2, <4>3
    <3> QED
      BY <3>4, <3>5
  <2> QED
    BY <2>2, <2>3
<1>7. ASSUME NEW i \in DOMAIN working, NEW r, Settles(i, r)  PROVE Goal
  <2>1. /\ r.call = working[i].call /\ r \in Answer' /\ replies' = Append(replies, r)
        /\ UNCHANGED <<page, requests, rules>> /\ Selected
    BY <1>7 DEF Settles, Selected, history
  <2>2. r.call.op # "rules"
    BY <2>1, WorkingJob DEF KnownJob
  <2>3. PICK right : right = {ListEventRulesForSump(page.sump)}
    OBVIOUS
  <2>4. right = {ListEventRulesForSump(page.sump)}'
    <3> SUFFICES ASSUME NEW sump, sump = page.sump
                 PROVE  right = {ListEventRulesForSump(sump)}'
      BY <2>1
    <3> QED
      BY <1>k, <2>1, <2>3
  <2>5. Changed(replies) => Changed(replies')
    BY <1>a, <2>1
  <2>6. LastSays(replies, {"rules"}, page.rules, right)
          => LastSays(replies', {"rules"}, page'.rules, right)
    BY <1>a, <2>1, <2>2
  <2>7. Asking(requests) => Asking(requests')
    BY <2>1
  <2> QED
    BY <1>o, <2>1, <2>3, <2>4, <2>5, <2>6, <2>7
<1>8. ASSUME NEW i \in DOMAIN working, NEW job \in KnownJob, Obeys(i, job)  PROVE Goal
  <2>1. UNCHANGED <<page, requests, replies, rules>> /\ Selected
    BY <1>8 DEF Obeys, Selected
  <2>2. Changed(replies) => Changed(replies')
    BY <2>1
  <2>3. Asking(requests) => Asking(requests')
    BY <2>1
  <2> QED
    BY <1>o, <1>s, <2>1, <2>2, <2>3
<1> QED
  BY <1>1, <1>2, <1>3, <1>4, <1>5, <1>6, <1>7, <1>8 DEF Moves

-----------------------------------------------------------------------------
(***************************************************************************)
(* The notices: that they are up.                                          *)
(***************************************************************************)

\* Some elements of a sequence are of the set, and no two of them are.
Some(q, T) == \E i \in DOMAIN q : q[i] \in T
AtMostOne(q, T) == \A i, j \in DOMAIN q : q[i] \in T /\ q[j] \in T => i = j

LEMMA SomeAppend ==
    ASSUME NEW S, NEW q \in Seq(S), NEW x \in S, NEW T
    PROVE  /\ Some(Append(q, x), T) <=> Some(q, T) \/ x \in T
           /\ AtMostOne(q, T) /\ (x \in T => ~Some(q, T)) => AtMostOne(Append(q, x), T)
<1> DEFINE r == Append(q, x)
<1>1. /\ \A i \in DOMAIN q : i \in DOMAIN r /\ r[i] = q[i]
      /\ \A i \in DOMAIN r : (i \in DOMAIN q /\ r[i] = q[i]) \/ (i = Len(q) + 1 /\ r[i] = x)
      /\ Len(q) + 1 \in DOMAIN r /\ r[Len(q) + 1] = x
  BY OneMore
<1> HIDE DEF r
<1>2. Some(r, T) <=> Some(q, T) \/ x \in T
  BY <1>1 DEF Some
<1>3. ASSUME AtMostOne(q, T), x \in T => ~Some(q, T)  PROVE AtMostOne(r, T)
  BY <1>1, <1>3 DEF AtMostOne, Some
<1> QED
  BY <1>2, <1>3 DEF r

LEMMA SomeTail ==
    ASSUME NEW S, NEW q \in Seq(S), q # << >>, NEW T
    PROVE  /\ Some(q, T) <=> Some(Tail(q), T) \/ Head(q) \in T
           /\ AtMostOne(q, T) => /\ AtMostOne(Tail(q), T)
                                 /\ Head(q) \in T => ~Some(Tail(q), T)
<1> DEFINE r == Tail(q)
<1>1. /\ 1 \in DOMAIN q /\ Head(q) = q[1] /\ DOMAIN r \subseteq Nat
      /\ \A i \in DOMAIN r : i + 1 \in DOMAIN q /\ i + 1 # 1 /\ r[i] = q[i + 1]
      /\ \A i \in DOMAIN q : i # 1 => i - 1 \in DOMAIN r /\ r[i - 1] = q[i]
  BY OneLess
<1> HIDE DEF r
<1>2. Some(r, T) \/ Head(q) \in T => Some(q, T)
  BY <1>1 DEF Some
<1>3. ASSUME Some(q, T), Head(q) \notin T  PROVE Some(r, T)
  <2>1. PICK i \in DOMAIN q : q[i] \in T
    BY <1>3 DEF Some
  <2>2. i # 1 /\ i - 1 \in DOMAIN r /\ r[i - 1] \in T
    BY <1>1, <1>3, <2>1
  <2> QED
    BY <2>2 DEF Some
<1>4. ASSUME AtMostOne(q, T)
      PROVE  AtMostOne(r, T) /\ (Head(q) \in T => ~Some(r, T))
  <2>1. \A i, j \in DOMAIN r : r[i] \in T /\ r[j] \in T => i = j
    <3> TAKE i, j \in DOMAIN r
    <3>1. i + 1 \in DOMAIN q /\ j + 1 \in DOMAIN q /\ r[i] = q[i + 1] /\ r[j] = q[j + 1]
          /\ i \in Nat /\ j \in Nat
      BY <1>1
    <3>2. r[i] \in T /\ r[j] \in T => i + 1 = j + 1
      BY <1>4, <3>1 DEF AtMostOne
    <3> QED
      BY <3>1, <3>2
  <2>2. ASSUME Head(q) \in T, NEW i \in DOMAIN r, r[i] \in T  PROVE FALSE
    <3>1. i + 1 \in DOMAIN q /\ q[i + 1] \in T /\ i + 1 # 1 /\ 1 \in DOMAIN q /\ q[1] \in T
      BY <1>1, <2>2
    <3> QED
      BY <1>4, <3>1 DEF AtMostOne
  <2> QED
    BY <2>1, <2>2 DEF AtMostOne, Some
<1> QED
  BY <1>2, <1>3, <1>4 DEF r

\* The calls of the chain.
Chains == {c \in Call : Chain(c)}

LEMMA ChainFacts ==
    ASSUME Typed
    PROVE  /\ requests \in Seq(Call)
           /\ ChainAsked <=> Some(requests, Chains)
           /\ ChainAnswered <=> Some(Answered, Chains)
           /\ Once <=> (Selected => /\ AtMostOne(requests, Chains)
                                    /\ AtMostOne(Answered, Chains)
                                    /\ ~(ChainAsked /\ ChainAnswered))
<1>1. /\ requests \in Seq(Call) /\ Answered \in Seq(Call) /\ DOMAIN Answered = DOMAIN replies
      /\ \A i \in DOMAIN replies : Answered[i] = replies[i].call
  BY CallsKnown, AnsweredFacts DEF Answered
<1>2. \A i \in DOMAIN requests : requests[i] \in Chains <=> Chain(requests[i])
  BY <1>1 DEF Chains
<1>3. \A i \in DOMAIN replies : Answered[i] \in Chains <=> Chain(replies[i].call)
  BY <1>1 DEF Chains
<1>4. ChainAsked <=> Some(requests, Chains)
  BY <1>2 DEF ChainAsked, Some
<1>5. ChainAnswered <=> Some(Answered, Chains)
  BY <1>1, <1>3 DEF ChainAnswered, Some
<1>6. AtMostOne(requests, Chains)
        <=> \A i, j \in DOMAIN requests : Chain(requests[i]) /\ Chain(requests[j]) => i = j
  BY <1>2 DEF AtMostOne
<1>7. AtMostOne(Answered, Chains)
        <=> \A i, j \in DOMAIN replies :
              Chain(replies[i].call) /\ Chain(replies[j].call) => i = j
  BY <1>1, <1>3 DEF AtMostOne
<1> QED
  BY <1>1, <1>4, <1>5, <1>6, <1>7 DEF Once

ChainState ==
    /\ requests \in Seq(Call)
    /\ ChainAsked <=> Some(requests, Chains)
    /\ ChainAnswered <=> Some(Answered, Chains)
    /\ Once <=> (Selected => /\ AtMostOne(requests, Chains)
                             /\ AtMostOne(Answered, Chains)
                             /\ ~(ChainAsked /\ ChainAnswered))

LEMMA ChainNow == Typed => ChainState
BY ChainFacts DEF ChainState

LEMMA ChainAfter == Typed' => ChainState'
BY ChainNow, PTL

\* A call of the chain is asked for when the sump is shown, moves to the answers,
\* and is followed by the next one; when the last is read the chain has ended.
LEMMA OnceStep ==
    ASSUME Typed, Typed', Once, Moves, Grows
    PROVE  /\ Once'
           /\ \A c : Asks(c) => (ChainAsked' <=> ChainAsked) /\ (ChainAnswered' <=> ChainAnswered)
           /\ \A sump : Shows(sump) => ChainAsked'
           /\ \A r : Hears(r) /\ Selected' =>
                IF r.call.op = "interrupted" THEN ChainAnswered /\ ~ChainAsked' /\ ~ChainAnswered'
                ELSE ChainAsked \/ ChainAnswered <=> ChainAsked' \/ ChainAnswered'
           /\ \A job \in KnownJob : Takes(job) =>
                (ChainAsked' <=> ChainAsked) /\ (ChainAnswered' <=> ChainAnswered)
           /\ \A r : Gives(r) => (ChainAsked \/ ChainAnswered <=> ChainAsked' \/ ChainAnswered')
           /\ \A i \in DOMAIN working : \A r : Settles(i, r) =>
                (ChainAsked' <=> ChainAsked) /\ (ChainAnswered' <=> ChainAnswered)
           /\ \A i \in DOMAIN working : \A job \in KnownJob : Obeys(i, job) =>
                (ChainAsked' <=> ChainAsked) /\ (ChainAnswered' <=> ChainAnswered)
<1>a. /\ requests \in Seq(Call) /\ Answered \in Seq(Call)
      /\ ChainAsked <=> Some(requests, Chains)
      /\ ChainAnswered <=> Some(Answered, Chains)
      /\ Selected => /\ AtMostOne(requests, Chains) /\ AtMostOne(Answered, Chains)
                     /\ ~(ChainAsked /\ ChainAnswered)
  BY ChainNow, AnsweredFacts DEF ChainState
<1>b. /\ ChainAsked' <=> Some(requests', Chains)
      /\ ChainAnswered' <=> Some(Answered', Chains)
      /\ (Selected' => /\ AtMostOne(requests', Chains) /\ AtMostOne(Answered', Chains)
                       /\ ~(ChainAsked' /\ ChainAnswered')) => Once'
  BY ChainAfter DEF ChainState
<1>c. \A c \in Call : c \in Chains <=> Chain(c)
  BY DEF Chains
<1>k. KnownCall \subseteq Call
  BY DEF KnownCall
<1>h. requests # << >> => Head(requests) \in Call
  BY CallsKnown
<1>1. ASSUME NEW c, Asks(c)
      PROVE  Once' /\ (ChainAsked' <=> ChainAsked) /\ (ChainAnswered' <=> ChainAnswered)
  <2>1. /\ requests' = Append(requests, c) /\ c \in Call /\ c \notin Chains
        /\ UNCHANGED replies /\ (Selected' => Selected)
    BY <1>1, <1>k DEF Asks, Chains, Chain, Selected
  <2>2. Answered' = Answered
    BY <2>1 DEF Answered
  <2>3. Some(requests', Chains) <=> Some(requests, Chains)
    BY <1>a, <2>1, SomeAppend
  <2>4. AtMostOne(requests, Chains) => AtMostOne(requests', Chains)
    BY <1>a, <2>1, SomeAppend
  <2> QED
    BY <1>a, <1>b, <2>1, <2>2, <2>3, <2>4
<1>2. ASSUME NEW sump, Shows(sump)
      PROVE  Once' /\ ChainAsked'
  <2>1. PICK a \in Call, b \in Call, d \in Call :
          /\ a \notin Chains /\ b \in Chains /\ d \notin Chains
          /\ requests' = Append(Append(Append(requests, a), b), d)
    <3>1. \A op \in {"query", "session", "rules"} :
            Opening(op, sump) \in Call /\ Opening(op, sump).op = op
      BY <1>2, <1>k DEF Shows, Opening
    <3>2. /\ Opening("query", sump) \notin Chains /\ Opening("session", sump) \in Chains
          /\ Opening("rules", sump) \notin Chains
      BY <1>c, <3>1 DEF Chain
    <3> QED
      BY <1>2, <3>1, <3>2 DEF Shows
  <2>2. PICK q \in Seq(Call) : q = Append(requests, a)
    <3>1. Append(requests, a) \in Seq(Call)
      BY <1>a
    <3> QED
      BY <3>1
  <2>3. PICK p \in Seq(Call) : p = Append(q, b)
    <3>1. Append(q, b) \in Seq(Call)
      OBVIOUS
    <3> QED
      BY <3>1
  <2>4. requests' = Append(p, d)
    BY <2>1, <2>2, <2>3
  <2>5. Some(requests', Chains)
    <3>1. Some(p, Chains)
      BY <2>1, <2>3, SomeAppend
    <3> QED
      BY <2>4, <3>1, SomeAppend
  <2>6. ASSUME Selected'
        PROVE  AtMostOne(requests', Chains) /\ AtMostOne(Answered', Chains)
               /\ ~Some(Answered', Chains)
    <3>1. requests = << >> /\ replies' = << >>
      BY <1>2, <2>6 DEF Shows, Selected, Still
    <3>2. ~Some(requests, Chains) /\ AtMostOne(requests, Chains)
      BY <3>1 DEF Some, AtMostOne
    <3>3. ~Some(q, Chains) /\ AtMostOne(q, Chains)
      BY <1>a, <2>1, <2>2, <3>2, SomeAppend
    <3>4. AtMostOne(p, Chains)
      BY <2>3, <3>3, SomeAppend
    <3>5. AtMostOne(requests', Chains)
      BY <2>1, <2>4, <3>4, SomeAppend
    <3>6. DOMAIN Answered' = {}
      BY <3>1 DEF Answered
    <3> QED
      BY <3>5, <3>6 DEF Some, AtMostOne
  <2> QED
    BY <1>b, <2>5, <2>6
<1>3. ASSUME LeavePage  PROVE Once'
  BY <1>3, <1>b DEF LeavePage, Selected
<1>4. ASSUME NEW r, Hears(r)
      PROVE  /\ Once'
             /\ Selected' =>
                  IF r.call.op = "interrupted" THEN ChainAnswered /\ ~ChainAsked' /\ ~ChainAnswered'
                  ELSE ChainAsked \/ ChainAnswered <=> ChainAsked' \/ ChainAnswered'
  <2>1. /\ replies # << >> /\ replies' = Tail(replies) /\ r = Head(replies) /\ r \in Answer
        /\ (Selected' => Selected)
    BY <1>4 DEF Hears, Selected, history
  <2>2. /\ Answered # << >> /\ Head(Answered) = r.call /\ Answered' = Tail(Answered)
        /\ r.call \in Call
    BY <2>1, <1>k, AnsweredFacts, AnswerOf
  <2>3. \/ UNCHANGED requests /\ r.call.op # "session"
        \/ \E d \in Call : /\ requests' = Append(requests, d)
                           /\ IF r.call.op = "session" THEN d \in Chains
                              ELSE d \notin Chains /\ r.call.op # "interrupted"
    <3>1. \/ UNCHANGED requests /\ r.call.op # "session"
          \/ \E d \in KnownCall : /\ requests' = Append(requests, d)
                                  /\ \/ r.call.op = "query" /\ d.op = "evaluate"
                                     \/ r.call.op = "session" /\ d.op = "interrupted"
                                     \/ r.call.op \in ChangeOps /\ d.op = "rules"
      BY <1>4 DEF Hears
    <3> QED
      BY <1>k, <3>1 DEF Chains, Chain, ChangeOps
  <2>4. /\ Some(Answered, Chains) <=> Some(Answered', Chains) \/ r.call \in Chains
        /\ AtMostOne(Answered, Chains) => /\ AtMostOne(Answered', Chains)
                                          /\ r.call \in Chains => ~Some(Answered', Chains)
    BY <1>a, <2>2, SomeTail
  <2>5. CASE r.call.op = "session"
    <3>1. PICK d \in Call : requests' = Append(requests, d) /\ d \in Chains
      BY <2>3, <2>5
    <3>2. /\ Some(requests', Chains)
          /\ AtMostOne(requests, Chains) /\ ~Some(requests, Chains)
               => AtMostOne(requests', Chains)
      BY <1>a, <3>1, SomeAppend
    <3>3. r.call \in Chains
      BY <1>c, <2>2, <2>5 DEF Chain
    <3> QED
      BY <1>a, <1>b, <2>1, <2>4, <2>5, <3>2, <3>3
  <2>6. CASE r.call.op = "interrupted"
    <3>1. UNCHANGED requests
      BY <2>3, <2>6
    <3>2. r.call \in Chains
      BY <1>c, <2>2, <2>6 DEF Chain
    <3> QED
      BY <1>a, <1>b, <2>1, <2>4, <2>6, <3>1, <3>2
  <2>7. CASE r.call.op \notin {"session", "interrupted"}
    <3>1. r.call \notin Chains
      BY <1>c, <2>2, <2>7 DEF Chain
    <3>2. /\ Some(requests', Chains) <=> Some(requests, Chains)
          /\ AtMostOne(requests, Chains) => AtMostOne(requests', Chains)
      <4>1. CASE UNCHANGED requests
        BY <4>1
      <4>2. CASE \E d \in Call : requests' = Append(requests, d) /\ d \notin Chains
        BY <1>a, <4>2, SomeAppend
      <4> QED
        BY <2>3, <2>7, <4>1, <4>2
    <3> QED
      BY <1>a, <1>b, <2>1, <2>4, <2>7, <3>1, <3>2
  <2> QED
    BY <2>5, <2>6, <2>7
<1>5. ASSUME NEW job \in KnownJob, Takes(job)
      PROVE  Once' /\ (ChainAsked' <=> ChainAsked) /\ (ChainAnswered' <=> ChainAnswered)
  <2>1. /\ requests # << >> /\ requests' = Tail(requests) /\ job.call = Head(requests)
        /\ UNCHANGED replies /\ (Selected' => Selected)
    BY <1>5 DEF Takes, Selected, history
  <2>2. Head(requests) \notin Chains
    BY <2>1 DEF KnownJob, Chains, Chain
  <2>3. Answered' = Answered
    BY <2>1 DEF Answered
  <2>4. /\ Some(requests, Chains) <=> Some(requests', Chains)
        /\ AtMostOne(requests, Chains) => AtMostOne(requests', Chains)
    BY <1>a, <2>1, <2>2, SomeTail
  <2> QED
    BY <1>a, <1>b, <2>1, <2>3, <2>4
<1>6. ASSUME NEW r, Gives(r)
      PROVE  Once' /\ (ChainAsked \/ ChainAnswered <=> ChainAsked' \/ ChainAnswered')
  <2>1. /\ requests # << >> /\ requests' = Tail(requests) /\ r.call = Head(requests)
        /\ replies' = Append(replies, r) /\ (Selected' => Selected)
    BY <1>6 DEF Gives, Selected, history
  <2>2. r.call \in Call /\ Answered' = Append(Answered, r.call)
    BY <1>h, <2>1, AnsweredFacts
  <2>3. /\ Some(requests, Chains) <=> Some(requests', Chains) \/ r.call \in Chains
        /\ AtMostOne(requests, Chains) => /\ AtMostOne(requests', Chains)
                                          /\ r.call \in Chains => ~Some(requests', Chains)
    BY <1>a, <2>1, SomeTail
  <2>4. /\ Some(Answered', Chains) <=> Some(Answered, Chains) \/ r.call \in Chains
        /\ AtMostOne(Answered, Chains) /\ (r.call \in Chains => ~Some(Answered, Chains))
             => AtMostOne(Answered', Chains)
    BY <1>a, <2>2, SomeAppend
  <2> QED
    BY <1>a, <1>b, <2>1, <2>3, <2>4
<1>7. ASSUME NEW i \in DOMAIN working, NEW r, Settles(i, r)
      PROVE  Once' /\ (ChainAsked' <=> ChainAsked) /\ (ChainAnswered' <=> ChainAnswered)
  <2>1. /\ r.call = working[i].call /\ replies' = Append(replies, r) /\ UNCHANGED requests
        /\ (Selected' => Selected)
    BY <1>7 DEF Settles, Selected, history
  <2>2. r.call \in Call /\ r.call \notin Chains
    BY <1>k, <2>1, WorkingJob DEF KnownJob, Chains, Chain
  <2>3. Answered' = Append(Answered, r.call)
    BY <2>1, <2>2, AnsweredFacts
  <2>4. /\ Some(Answered', Chains) <=> Some(Answered, Chains)
        /\ AtMostOne(Answered, Chains) => AtMostOne(Answered', Chains)
    BY <1>a, <2>2, <2>3, SomeAppend
  <2> QED
    BY <1>a, <1>b, <2>1, <2>4
<1>8. ASSUME NEW i \in DOMAIN working, NEW job \in KnownJob, Obeys(i, job)
      PROVE  Once' /\ (ChainAsked' <=> ChainAsked) /\ (ChainAnswered' <=> ChainAnswered)
  <2>1. UNCHANGED <<requests, replies>> /\ (Selected' => Selected)
    BY <1>8 DEF Obeys, Selected
  <2>2. Answered' = Answered
    BY <2>1 DEF Answered
  <2> QED
    BY <1>a, <1>b, <2>1, <2>2
<1>9. Once'
  BY <1>1, <1>2, <1>3, <1>4, <1>5, <1>6, <1>7, <1>8 DEF Moves
<1> QED
  BY <1>1, <1>2, <1>4, <1>5, <1>6, <1>7, <1>8, <1>9

\* What is told of the notices of this sump stays true, as long as its copies agree
\* with the table and none of them is dismissed.
LEMMA OwnNoticesKeep ==
    ASSUME Typed, AllHere, NoticesToCome, Selected, ChainAsked \/ ChainAnswered, Moves
    PROVE  \A s \in DOMAIN sessions :
             sessions[s].sump = page.sump => sessions'[s].notice = sessions[s].notice
<1> SUFFICES ASSUME NEW s \in DOMAIN sessions, sessions[s].sump = page.sump
             PROVE  sessions'[s].notice = sessions[s].notice
  OBVIOUS
<1>w. /\ requests \in Seq(KnownCall) /\ sessions \in Seq(Row)
      /\ \A i \in DOMAIN working : working[i] \in KnownJob
  BY OnTheWay
<1>n. /\ \A i \in DOMAIN requests : ~Dismisses(requests[i])
      /\ \A i \in DOMAIN working :
           working[i].row # Null /\ working[i].row.sump = page.sump =>
               working[i].row.notice = sessions[working[i].id].notice
  BY DEF NoticesToCome
<1>1. CASE UNCHANGED sessions
  BY <1>1
<1>2. ASSUME NEW r, Gives(r)  PROVE sessions'[s].notice = sessions[s].notice
  <2>1. r.call = requests[1] /\ 1 \in DOMAIN requests
    BY <1>2, <1>w, OneLess DEF Gives
  <2>2. ~(r.call.op = "dismiss" /\ r.call.arg = s)
    BY <1>n, <2>1 DEF Dismisses
  <2> QED
    BY <1>2, <2>2 DEF Gives
<1>3. ASSUME NEW i \in DOMAIN working, NEW r, Settles(i, r)
      PROVE  sessions'[s].notice = sessions[s].notice
  <2>1. working[i] \in KnownJob /\ r.call = working[i].call
    BY <1>3, <1>w DEF Settles
  <2>2. CASE r.call.op \in {"query", "evaluate"}
    BY <1>3, <2>2 DEF Settles
  <2>3. CASE r.call.op \in {"pause", "stop"}
    <3>1. /\ working[i].row # Null /\ working[i].id \in DOMAIN sessions
          /\ working[i].row.sump = sessions[working[i].id].sump
      BY <2>1, <2>3 DEF KnownJob
    <3>2. PICK row \in Row : /\ row = ClosedRow(working[i])
                             /\ row.notice = working[i].row.notice
      BY <2>1, <3>1, ClosedRowFacts
    <3>3. sessions' = [sessions EXCEPT ![working[i].id] = row]
      BY <1>3, <2>3, <3>2 DEF Settles
    <3>4. CASE working[i].id = s
      BY <1>n, <1>w, <3>1, <3>2, <3>3, <3>4
    <3>5. CASE working[i].id # s
      BY <1>w, <3>3, <3>5
    <3> QED
      BY <3>4, <3>5
  <2> QED
    BY <2>1, <2>2, <2>3 DEF KnownJob
<1>4. ASSUME NEW i \in DOMAIN working, NEW job \in KnownJob, Obeys(i, job)
      PROVE  sessions'[s].notice = sessions[s].notice
  <2>1. \/ sessions'[s].notice = sessions[s].notice
        \/ /\ working[i].row # Null /\ working[i].id = s
           /\ sessions'[s].notice = working[i].row.notice
    BY <1>4 DEF Obeys
  <2>2. working[i].row # Null => working[i].row.sump = sessions[working[i].id].sump
    BY <1>w DEF KnownJob
  <2> QED
    BY <1>n, <2>1, <2>2
<1>5. \A c : Asks(c) => UNCHANGED sessions
  BY DEF Asks, catalog
<1>6. \A sump : Shows(sump) => UNCHANGED sessions
  BY DEF Shows, catalog
<1>7. LeavePage => UNCHANGED sessions
  BY DEF LeavePage, catalog
<1>8. \A r : Hears(r) => UNCHANGED sessions
  BY DEF Hears, catalog
<1>9. \A job : Takes(job) => UNCHANGED sessions
  BY DEF Takes, catalog
<1> QED
  BY <1>1, <1>2, <1>3, <1>4, <1>5, <1>6, <1>7, <1>8, <1>9 DEF Moves

LEMMA NoticesToComeStep ==
    ASSUME Typed, Typed', AllHere, LastNotices, Once, NoticesToCome, Moves, Grows
    PROVE  NoticesToCome'
<1> SUFFICES ASSUME Selected', ChainAsked' \/ ChainAnswered'  PROVE NoticesToCome'
  BY DEF NoticesToCome
<1>w. /\ requests \in Seq(KnownCall) /\ working \in Seq(KnownJob) /\ replies \in Seq(Answer)
      /\ \A i \in DOMAIN requests : requests[i] \in KnownCall
      /\ \A i \in DOMAIN working : working[i] \in KnownJob
      /\ \A i \in DOMAIN replies : /\ replies[i] \in Answer /\ replies[i].call \in KnownCall
                                   /\ replies[i].value \in ValueOf(replies[i].call.op)
      /\ page # Null => page \in KnownPage
  BY OnTheWay DEF Typed
<1>x. /\ Answer \subseteq Answer' /\ replies \in Seq(Answer') /\ KnownCall \subseteq Call
  BY <1>w, KnownGrows, SeqOfMore DEF KnownCall
<1> DEFINE Apart == {c \in Call : ~(c.op = "dismiss" /\ sessions'[c.arg].sump = page'.sump)}
           Agrees == {j \in KnownJob : j.row # Null /\ j.row.sump = page'.sump =>
                                         j.row.notice = sessions'[j.id].notice}
           Told == {r \in Answer' :
                      /\ r.call \in Apart
                      /\ r.call.op = "interrupted" =>
                           \A s \in r.value :
                               sessions'[s].sump = page'.sump => sessions'[s].notice}
           Unshown == {s \in DOMAIN sessions : sessions[s].sump # page.sump}
<1>g. ASSUME /\ \A s \in page'.notices : sessions'[s].sump # page'.sump
             /\ \A i \in DOMAIN requests' : requests'[i] \in Apart
             /\ \A i \in DOMAIN working' : working'[i] \in Agrees
             /\ \A i \in DOMAIN replies' : replies'[i] \in Told
      PROVE  NoticesToCome'
  <2>1. \A i \in DOMAIN requests' : ~Dismisses(requests[i])'
    BY <1>g DEF Dismisses
  <2>2. \A i \in DOMAIN replies' : ~Dismisses(replies[i].call)'
    BY <1>g DEF Dismisses
  <2> QED
    BY <1>g, <2>1, <2>2 DEF NoticesToCome
<1>s. \A s \in DOMAIN sessions : sessions'[s].sump = sessions[s].sump
  BY DEF Grows
<1>o. ASSUME Selected, page'.sump = page.sump, ChainAsked \/ ChainAnswered
      PROVE  /\ \A s \in page.notices : s \in Unshown
             /\ \A i \in DOMAIN requests : requests[i] \in Apart
             /\ \A i \in DOMAIN working : working[i] \in Agrees
             /\ \A i \in DOMAIN replies : replies[i] \in Told
  <2>1. /\ \A s \in page.notices : sessions[s].sump # page.sump
        /\ \A i \in DOMAIN requests : ~Dismisses(requests[i])
        /\ \A i \in DOMAIN replies : ~Dismisses(replies[i].call)
        /\ \A i \in DOMAIN working :
             working[i].row # Null /\ working[i].row.sump = page.sump =>
                 working[i].row.notice = sessions[working[i].id].notice
        /\ \A i \in DOMAIN replies :
             replies[i].call.op = "interrupted" =>
                 \A s \in replies[i].value :
                     sessions[s].sump = page.sump => sessions[s].notice
    BY <1>o DEF NoticesToCome
  <2>2. \A s \in DOMAIN sessions :
          sessions[s].sump = page.sump => sessions'[s].notice = sessions[s].notice
    BY <1>o, OwnNoticesKeep
  <2>3. \A c \in KnownCall : ~Dismisses(c) => c \in Apart
    BY <1>o, <1>s, <1>x DEF Dismisses, KnownCall
  <2>4. \A s \in page.notices : s \in Unshown
    BY <1>o, <1>w, <2>1 DEF KnownPage, Selected
  <2>5. \A i \in DOMAIN requests : requests[i] \in Apart
    BY <1>w, <2>1, <2>3
  <2>6. ASSUME NEW i \in DOMAIN working  PROVE working[i] \in Agrees
    <3>1. working[i].row # Null => /\ working[i].id \in DOMAIN sessions
                                   /\ working[i].row.sump = sessions[working[i].id].sump
      BY <1>w DEF KnownJob
    <3> QED
      BY <1>o, <1>w, <2>1, <2>2, <3>1
  <2>7. ASSUME NEW i \in DOMAIN replies  PROVE replies[i] \in Told
    <3>1. replies[i].call \in Apart /\ replies[i] \in Answer'
      BY <1>w, <1>x, <2>1, <2>3
    <3>2. replies[i].call.op = "interrupted" => replies[i].value \subseteq DOMAIN sessions
      BY <1>w DEF ValueOf, SessionOps
    <3> QED
      BY <1>o, <1>s, <2>1, <2>2, <3>1, <3>2
  <2> QED
    BY <2>4, <2>5, <2>6, <2>7
<1>a. \A c \in Call : c.op # "dismiss" => c \in Apart
  OBVIOUS
<1>j. \A j \in KnownJob : (j.row # Null => j.row = sessions'[j.id]) => j \in Agrees
  OBVIOUS
<1>r. \A r \in Answer' : r.call \in Apart /\ r.call.op # "interrupted" => r \in Told
  OBVIOUS
<1>t. \A r \in Answer' : /\ r.call \in Apart
                         /\ r.value = {s \in DOMAIN sessions' : sessions'[s].notice}
                         => r \in Told
  OBVIOUS
<1>u. \A s \in Unshown : page'.sump = page.sump => sessions'[s].sump # page'.sump
  BY <1>s
<1> HIDE DEF Apart, Agrees, Told
<1>1. ASSUME NEW c \in KnownCall, Asks(c)  PROVE NoticesToCome'
  <2>1. /\ Selected /\ page'.sump = page.sump /\ page'.notices = page.notices
        /\ requests' = Append(requests, c) /\ UNCHANGED <<working, replies, sessions>>
        /\ c.op = "dismiss" => c.arg \in page.notices
    BY <1>1, <1>w DEF Asks, Selected, KnownPage, Page, catalog
  <2>2. ChainAsked \/ ChainAnswered
    BY <1>1, OnceStep
  <2>3. c \in Apart
    <3>1. c.op = "dismiss" => sessions'[c.arg].sump # page'.sump
      BY <1>o, <1>u, <2>1, <2>2
    <3> QED
      BY <1>x, <3>1 DEF Apart
  <2>4. \A i \in DOMAIN requests' : requests'[i] \in Apart
    BY <1>w, <1>o, <2>1, <2>2, <2>3, OneMore
  <2> QED
    BY <1>g, <1>o, <1>u, <2>1, <2>2, <2>4
<1>2. ASSUME NEW sump \in Sumps, Shows(sump)  PROVE NoticesToCome'
  <2>1. /\ Still /\ UNCHANGED <<working, replies, sessions>> /\ page'.sump = sump
        /\ requests' = Append(Append(Append(requests, Opening("query", sump)),
                                     Opening("session", sump)),
                              Opening("rules", sump))
        /\ \A op \in {"query", "session", "rules"} : Opening(op, sump) \in KnownCall
        /\ \/ page'.notices = {}
           \/ page # Null /\ page.sump # sump /\ page'.notices = page.notices
    BY <1>2 DEF Shows, Selected, catalog
  <2>2. \A op \in {"query", "session", "rules"} : Opening(op, sump) \in Apart
    BY <1>a, <1>x, <2>1 DEF Opening
  <2>3. PICK a \in Apart, b \in Apart, d \in Apart :
          requests' = Append(Append(Append(<< >>, a), b), d)
    BY <2>1, <2>2 DEF Still
  <2>4. \A i \in DOMAIN requests' : requests'[i] \in Apart
    BY <2>3
  <2>5. working' = << >> /\ replies' = << >>
    BY <2>1 DEF Still
  <2>6. ASSUME page # Null  PROVE page.notices \subseteq Own(page.sump)
    <3>1. DOMAIN requests = {} /\ DOMAIN Answered = {}
      BY <2>1 DEF Still, Answered
    <3> QED
      BY <2>6, <3>1 DEF LastNotices, NoticesLast, Ends
  <2>7. \A s \in page'.notices : sessions'[s].sump # page'.sump
    BY <2>1, <2>6 DEF Own
  <2> QED
    BY <1>g, <2>4, <2>5, <2>7
<1>3. ASSUME LeavePage  PROVE NoticesToCome'
  BY <1>3 DEF LeavePage, Selected
<1>4. ASSUME NEW r \in Answer, Hears(r)  PROVE NoticesToCome'
  <2>1. /\ replies # << >> /\ replies' = Tail(replies) /\ r = Head(replies)
        /\ UNCHANGED <<working, sessions>> /\ Selected
    BY <1>4 DEF Hears, Selected, history, catalog
  <2>2. IF r.call.op = "interrupted" THEN ~ChainAsked' /\ ~ChainAnswered'
        ELSE ChainAsked \/ ChainAnswered <=> ChainAsked' \/ ChainAnswered'
    BY <1>4, OnceStep
  <2>3. r.call.op # "interrupted" /\ (ChainAsked \/ ChainAnswered)
    BY <2>2
  <2>4. r.call.live
    <3>1. 1 \in DOMAIN replies /\ r = replies[1]
      BY <1>w, <2>1, OneLess
    <3> QED
      BY <2>1, <3>1 DEF AllHere, Here
  <2>5. page'.sump = page.sump /\ page'.notices \subseteq page.notices
    BY <1>4, <2>3, <2>4 DEF Hears
  <2>6. \/ UNCHANGED requests
        \/ \E d \in KnownCall : requests' = Append(requests, d) /\ d.op # "dismiss"
    BY <1>4 DEF Hears
  <2>7. \A i \in DOMAIN requests' : requests'[i] \in Apart
    <3>1. ASSUME NEW d \in KnownCall, requests' = Append(requests, d), d.op # "dismiss"
          PROVE  \A i \in DOMAIN requests' : requests'[i] \in Apart
      <4>1. d \in Apart
        BY <1>a, <1>x, <3>1
      <4> QED
        BY <1>w, <1>o, <2>1, <2>3, <2>5, <3>1, <4>1, OneMore
    <3> QED
      BY <1>o, <2>1, <2>3, <2>5, <2>6, <3>1
  <2>8. \A i \in DOMAIN replies' : replies'[i] \in Told
    BY <1>w, <1>o, <2>1, <2>3, <2>5, OneLess
  <2>9. \A s \in page'.notices : sessions'[s].sump # page'.sump
    BY <1>o, <1>u, <2>1, <2>3, <2>5
  <2> QED
    BY <1>g, <1>o, <2>1, <2>3, <2>5, <2>7, <2>8, <2>9
<1>5. ASSUME NEW job \in KnownJob, Takes(job)  PROVE NoticesToCome'
  <2>1. /\ requests # << >> /\ requests' = Tail(requests) /\ working' = Append(working, job)
        /\ UNCHANGED <<page, replies, sessions>> /\ Selected
        /\ job.row # Null => job.row = sessions[job.id]
    BY <1>5 DEF Takes, Selected, history, catalog
  <2>2. ChainAsked \/ ChainAnswered
    BY <1>5, OnceStep
  <2>3. job \in Agrees
    BY <1>j, <2>1
  <2>4. \A i \in DOMAIN requests' : requests'[i] \in Apart
    BY <1>w, <1>o, <2>1, <2>2, OneLess
  <2>5. \A i \in DOMAIN working' : working'[i] \in Agrees
    BY <1>w, <1>o, <2>1, <2>2, <2>3, OneMore
  <2> QED
    BY <1>g, <1>o, <1>u, <2>1, <2>2, <2>4, <2>5
<1>6. ASSUME NEW r, Gives(r)  PROVE NoticesToCome'
  <2>1. /\ requests # << >> /\ requests' = Tail(requests) /\ replies' = Append(replies, r)
        /\ r \in Answer' /\ r.call = Head(requests) /\ UNCHANGED <<page, working>> /\ Selected
        /\ r.call.op = "interrupted" => /\ UNCHANGED sessions
                                        /\ r.value = {s \in DOMAIN sessions : sessions[s].notice}
    BY <1>6 DEF Gives, Selected, history
  <2>2. ChainAsked \/ ChainAnswered
    BY <1>6, OnceStep
  <2>3. r.call \in Apart
    BY <1>w, <1>o, <2>1, <2>2, OneLess
  <2>4. r \in Told
    BY <1>r, <1>t, <2>1, <2>3
  <2>5. \A i \in DOMAIN requests' : requests'[i] \in Apart
    BY <1>w, <1>o, <2>1, <2>2, OneLess
  <2>6. \A i \in DOMAIN replies' : replies'[i] \in Told
    BY <1>o, <1>x, <2>1, <2>2, <2>4, OneMore
  <2> QED
    BY <1>g, <1>o, <1>u, <2>1, <2>2, <2>5, <2>6
<1>7. ASSUME NEW i \in DOMAIN working, NEW r, Settles(i, r)  PROVE NoticesToCome'
  <2>1. /\ working' = RemoveAt(working, i) /\ replies' = Append(replies, r)
        /\ r \in Answer' /\ r.call = working[i].call /\ UNCHANGED <<page, requests>> /\ Selected
    BY <1>7 DEF Settles, Selected, history
  <2>2. ChainAsked \/ ChainAnswered
    BY <1>7, OnceStep
  <2>3. r.call \in Call /\ r.call.op \notin {"dismiss", "interrupted"}
    BY <1>w, <1>x, <2>1 DEF KnownJob
  <2>4. r \in Told
    BY <1>a, <1>r, <2>1, <2>3
  <2>5. \A j \in DOMAIN working' : working'[j] \in Agrees
    BY <1>w, <1>o, <2>1, <2>2, RemoveAtElements
  <2>6. \A j \in DOMAIN replies' : replies'[j] \in Told
    BY <1>o, <1>x, <2>1, <2>2, <2>4, OneMore
  <2> QED
    BY <1>g, <1>o, <1>u, <2>1, <2>2, <2>5, <2>6
<1>8. ASSUME NEW i \in DOMAIN working, NEW job \in KnownJob, Obeys(i, job)
      PROVE  NoticesToCome'
  <2>1. /\ working' = [working EXCEPT ![i] = job] /\ UNCHANGED <<page, requests, replies>>
        /\ Selected
        /\ job.row # Null => UNCHANGED sessions /\ job.row = sessions[job.id]
    BY <1>8 DEF Obeys, Selected
  <2>2. ChainAsked \/ ChainAnswered
    BY <1>8, OnceStep
  <2>3. job \in Agrees
    BY <1>j, <2>1
  <2>4. \A j \in DOMAIN working' : working'[j] \in Agrees
    BY <1>w, <1>o, <2>1, <2>2, <2>3
  <2> QED
    BY <1>g, <1>o, <1>u, <2>1, <2>2, <2>4
<1> QED
  BY <1>1, <1>2, <1>3, <1>4, <1>5, <1>6, <1>7, <1>8 DEF Moves

\* The copies stay up and the dismissals stay until they are read.
LEMMA NoticesHereStep ==
    ASSUME Typed, Typed', AllHere, Once, NoticesToCome, NoticesHere, Moves, Grows
    PROVE  NoticesHere'
<1> SUFFICES ASSUME Selected', ~(ChainAsked' \/ ChainAnswered')  PROVE NoticesHere'
  BY DEF NoticesHere
<1>w. /\ requests \in Seq(KnownCall) /\ working \in Seq(KnownJob) /\ replies \in Seq(Answer)
      /\ \A i \in DOMAIN requests : requests[i] \in KnownCall
      /\ \A i \in DOMAIN working : working[i] \in KnownJob
      /\ \A i \in DOMAIN replies : /\ replies[i] \in Answer /\ replies[i].call \in KnownCall
                                   /\ replies[i].value \in ValueOf(replies[i].call.op)
      /\ page # Null => page \in KnownPage
      /\ sessions \in Seq(Row)
  BY OnTheWay DEF Typed
<1>x. Answer \subseteq Answer' /\ replies \in Seq(Answer')
  BY <1>w, KnownGrows, SeqOfMore
<1> DEFINE Upright(s) == {j \in KnownJob : j.row # Null /\ j.id = s => j.row.notice}
           Dismissals(s) == {r \in Answer' : r.call.op = "dismiss" /\ r.call.arg = s}
           Stood(s) == /\ sessions[s].sump = page.sump
                       /\ \/ /\ sessions[s].notice
                             /\ \A i \in DOMAIN working : working[i] \in Upright(s)
                          \/ \E i \in DOMAIN replies : replies[i] \in Dismissals(s)
           Stands(s) == /\ sessions'[s].sump = page'.sump
                        /\ \/ /\ sessions'[s].notice
                              /\ \A i \in DOMAIN working' : working'[i] \in Upright(s)
                           \/ \E i \in DOMAIN replies' : replies'[i] \in Dismissals(s)
<1>g. ASSUME \A s \in page'.notices : Stands(s)  PROVE NoticesHere'
  <2>1. \A s \in page'.notices : /\ sessions'[s].sump = page'.sump
                                 /\ Up(s)' \/ Dismissing(s)'
    BY <1>g DEF Up, Dismissing
  <2> QED
    BY <2>1 DEF NoticesHere
<1>s. \A s \in DOMAIN sessions : sessions'[s].sump = sessions[s].sump
  BY DEF Grows
<1>o. ASSUME Selected, ~(ChainAsked \/ ChainAnswered), NEW s \in page.notices
      PROVE  s \in DOMAIN sessions /\ Stood(s)
  <2>1. sessions[s].sump = page.sump /\ (Up(s) \/ Dismissing(s))
    BY <1>o DEF NoticesHere
  <2>2. Up(s) => sessions[s].notice /\ \A i \in DOMAIN working : working[i] \in Upright(s)
    BY <1>w DEF Up
  <2>3. Dismissing(s) => \E i \in DOMAIN replies : replies[i] \in Dismissals(s)
    BY <1>w, <1>x DEF Dismissing
  <2>4. s \in DOMAIN sessions
    BY <1>o, <1>w DEF Selected, KnownPage
  <2> QED
    BY <2>1, <2>2, <2>3, <2>4
<1>j. \A s : \A j \in KnownJob : (j.row # Null /\ j.id = s => j.row.notice) => j \in Upright(s)
  OBVIOUS
<1>d. \A r \in Answer' : r.call.op = "dismiss" => r \in Dismissals(r.call.arg)
  OBVIOUS
<1>u. \A s : \A j \in Upright(s) : j.row # Null /\ j.id = s => j.row.notice
  OBVIOUS
<1>e. \A s : \A r \in Dismissals(s) : r.call.op = "dismiss" /\ r.call.arg = s
  OBVIOUS
<1> HIDE DEF Upright, Dismissals
<1>1. ASSUME NEW c \in KnownCall, Asks(c)  PROVE NoticesHere'
  <2>1. /\ Selected /\ page'.sump = page.sump /\ page'.notices = page.notices
        /\ UNCHANGED <<working, replies, sessions>>
    BY <1>1, <1>w DEF Asks, Selected, KnownPage, Page, catalog
  <2>2. ~(ChainAsked \/ ChainAnswered)
    BY <1>1, OnceStep
  <2> QED
    BY <1>g, <1>o, <2>1, <2>2
<1>2. ASSUME NEW sump \in Sumps, Shows(sump)  PROVE NoticesHere'
  BY <1>2, OnceStep
<1>3. ASSUME LeavePage  PROVE NoticesHere'
  BY <1>3 DEF LeavePage, Selected
<1>4. ASSUME NEW r \in Answer, Hears(r)  PROVE NoticesHere'
  <2>1. /\ replies # << >> /\ replies' = Tail(replies) /\ r = Head(replies)
        /\ UNCHANGED <<working, sessions>> /\ Selected
    BY <1>4 DEF Hears, Selected, history, catalog
  <2>2. IF r.call.op = "interrupted" THEN ChainAnswered
        ELSE ~(ChainAsked \/ ChainAnswered)
    BY <1>4, OnceStep
  <2>3. 1 \in DOMAIN replies /\ r = replies[1]
    BY <1>w, <2>1, OneLess
  <2>4. r.call.live /\ r.call.sump = page.sump
    BY <2>1, <2>3 DEF AllHere, Here
  <2>5. page'.sump = page.sump
    BY <1>4, <2>4 DEF Hears
  <2>6. CASE r.call.op = "interrupted"
    <3>1. page'.notices = {s \in r.value : sessions[s].sump = page.sump}
      BY <1>4, <2>4, <2>6 DEF Hears
    <3>2. r.value \subseteq DOMAIN sessions
      BY <1>w, <2>3, <2>6 DEF ValueOf, SessionOps
    <3>3. \A s \in r.value : sessions[s].sump = page.sump => sessions[s].notice
      BY <2>1, <2>2, <2>3, <2>6 DEF NoticesToCome
    <3>4. \A i \in DOMAIN working :
            working[i].row # Null /\ working[i].row.sump = page.sump =>
                working[i].row.notice = sessions[working[i].id].notice
      BY <2>1, <2>2, <2>6 DEF NoticesToCome
    <3>5. ASSUME NEW s \in page'.notices  PROVE Stands(s)
      <4>1. /\ s \in DOMAIN sessions /\ sessions[s].sump = page.sump /\ sessions[s].notice
        BY <3>1, <3>2, <3>3, <3>5
      <4>2. ASSUME NEW i \in DOMAIN working  PROVE working[i] \in Upright(s)
        <5>1. working[i].row # Null => working[i].row.sump = sessions[working[i].id].sump
          BY <1>w DEF KnownJob
        <5> QED
          BY <1>j, <1>w, <3>4, <4>1, <5>1
      <4> QED
        BY <2>1, <2>5, <4>1, <4>2
    <3> QED
      BY <1>g, <3>5
  <2>7. CASE r.call.op # "interrupted"
    <3>1. /\ page'.notices \subseteq page.notices
          /\ r.call.op = "dismiss" => r.call.arg \notin page'.notices
      BY <1>4, <2>4, <2>7 DEF Hears
    <3>2. ASSUME NEW s \in page'.notices  PROVE Stands(s)
      <4>1. Stood(s)
        BY <1>o, <2>1, <2>2, <2>7, <3>1, <3>2
      <4>2. r \notin Dismissals(s)
        BY <1>e, <3>1, <3>2
      <4>3. ASSUME NEW i \in DOMAIN replies, replies[i] \in Dismissals(s)
            PROVE  \E k \in DOMAIN replies' : replies'[k] \in Dismissals(s)
        <5>1. i # 1
          BY <2>3, <4>2, <4>3
        <5>2. i - 1 \in DOMAIN replies' /\ replies'[i - 1] = replies[i]
          BY <1>w, <2>1, <5>1, OneLess
        <5> QED
          BY <4>3, <5>2
      <4> QED
        BY <2>1, <2>5, <4>1, <4>3
    <3> QED
      BY <1>g, <3>2
  <2> QED
    BY <2>6, <2>7
<1>5. ASSUME NEW job \in KnownJob, Takes(job)  PROVE NoticesHere'
  <2>1. /\ working' = Append(working, job) /\ UNCHANGED <<page, replies, sessions>> /\ Selected
        /\ job.row # Null => job.row = sessions[job.id]
    BY <1>5 DEF Takes, Selected, history, catalog
  <2>2. ~(ChainAsked \/ ChainAnswered)
    BY <1>5, OnceStep
  <2>3. ASSUME NEW s \in page'.notices  PROVE Stands(s)
    <3>1. Stood(s)
      BY <1>o, <2>1, <2>2, <2>3
    <3>2. sessions[s].notice => job \in Upright(s)
      BY <1>j, <2>1
    <3>3. sessions[s].notice /\ (\A i \in DOMAIN working : working[i] \in Upright(s)) =>
            \A i \in DOMAIN working' : working'[i] \in Upright(s)
      BY <1>w, <2>1, <3>2, OneMore
    <3> QED
      BY <2>1, <3>1, <3>3
  <2> QED
    BY <1>g, <2>3
<1>6. ASSUME NEW r, Gives(r)  PROVE NoticesHere'
  <2>1. /\ replies' = Append(replies, r) /\ r \in Answer' /\ UNCHANGED <<page, working>>
        /\ Selected
        /\ \A s \in DOMAIN sessions : \/ sessions'[s].notice = sessions[s].notice
                                      \/ r.call.op = "dismiss" /\ r.call.arg = s
    BY <1>6 DEF Gives, Selected, history
  <2>2. ~(ChainAsked \/ ChainAnswered)
    BY <1>6, OnceStep
  <2>3. ASSUME NEW s \in page'.notices  PROVE Stands(s)
    <3>1. s \in DOMAIN sessions /\ Stood(s)
      BY <1>o, <2>1, <2>2, <2>3
    <3>2. CASE r.call.op = "dismiss" /\ r.call.arg = s
      <4>1. \E k \in DOMAIN replies' : replies'[k] \in Dismissals(s)
        BY <1>d, <1>x, <2>1, <3>2, OneMore
      <4> QED
        BY <1>s, <2>1, <3>1, <4>1
    <3>3. CASE sessions'[s].notice = sessions[s].notice
      <4>1. (\E i \in DOMAIN replies : replies[i] \in Dismissals(s)) =>
              \E k \in DOMAIN replies' : replies'[k] \in Dismissals(s)
        BY <1>x, <2>1, OneMore
      <4> QED
        BY <1>s, <2>1, <3>1, <3>3, <4>1
    <3> QED
      BY <2>1, <3>1, <3>2, <3>3
  <2> QED
    BY <1>g, <2>3
<1>7. ASSUME NEW i \in DOMAIN working, NEW r, Settles(i, r)  PROVE NoticesHere'
  <2>1. /\ working' = RemoveAt(working, i) /\ replies' = Append(replies, r)
        /\ r \in Answer' /\ r.call = working[i].call /\ UNCHANGED page /\ Selected
    BY <1>7 DEF Settles, Selected, history
  <2>2. ~(ChainAsked \/ ChainAnswered)
    BY <1>7, OnceStep
  <2>3. \A s \in DOMAIN sessions :
          \/ sessions'[s].notice = sessions[s].notice
          \/ /\ working[i].row # Null /\ working[i].id = s
             /\ sessions'[s].notice = working[i].row.notice
    <3>1. CASE r.call.op \in {"query", "evaluate"}
      BY <1>7, <3>1 DEF Settles
    <3>2. CASE r.call.op \in {"pause", "stop"}
      <4>1. working[i].row # Null /\ working[i].id \in DOMAIN sessions /\ working[i] \in KnownJob
        BY <1>w, <2>1, <3>2 DEF KnownJob
      <4>2. PICK row \in Row : /\ row = ClosedRow(working[i])
                               /\ row.notice = working[i].row.notice
        BY <4>1, ClosedRowFacts
      <4>3. sessions' = [sessions EXCEPT ![working[i].id] = row]
        BY <1>7, <3>2, <4>2 DEF Settles
      <4> QED
        BY <1>w, <4>1, <4>2, <4>3
    <3> QED
      BY <1>w, <2>1, <3>1, <3>2 DEF KnownJob
  <2>4. ASSUME NEW s \in page'.notices  PROVE Stands(s)
    <3>1. s \in DOMAIN sessions /\ Stood(s)
      BY <1>o, <2>1, <2>2, <2>4
    <3>2. (\E k \in DOMAIN replies : replies[k] \in Dismissals(s)) =>
            \E k \in DOMAIN replies' : replies'[k] \in Dismissals(s)
      BY <1>x, <2>1, OneMore
    <3>3. (\A k \in DOMAIN working : working[k] \in Upright(s)) =>
            \A k \in DOMAIN working' : working'[k] \in Upright(s)
      BY <1>w, <2>1, RemoveAtElements
    <3>4. working[i] \in Upright(s) => sessions'[s].notice = sessions[s].notice
                                       \/ sessions'[s].notice
      BY <1>u, <2>3, <3>1
    <3> QED
      BY <1>s, <2>1, <3>1, <3>2, <3>3, <3>4
  <2> QED
    BY <1>g, <2>4
<1>8. ASSUME NEW i \in DOMAIN working, NEW job \in KnownJob, Obeys(i, job)
      PROVE  NoticesHere'
  <2>1. /\ working' = [working EXCEPT ![i] = job] /\ UNCHANGED <<page, replies>> /\ Selected
        /\ job.row # Null => UNCHANGED sessions /\ job.row = sessions[job.id]
    BY <1>8 DEF Obeys, Selected
  <2>2. ~(ChainAsked \/ ChainAnswered)
    BY <1>8, OnceStep
  <2>3. \A s \in DOMAIN sessions :
          \/ sessions'[s].notice = sessions[s].notice
          \/ /\ working[i].row # Null /\ working[i].id = s
             /\ sessions'[s].notice = working[i].row.notice
    BY <1>8 DEF Obeys
  <2>4. ASSUME NEW s \in page'.notices  PROVE Stands(s)
    <3>1. s \in DOMAIN sessions /\ Stood(s)
      BY <1>o, <2>1, <2>2, <2>4
    <3>2. working[i] \in Upright(s) => sessions'[s].notice = sessions[s].notice
                                       \/ sessions'[s].notice
      BY <1>u, <2>3, <3>1
    <3>3. sessions[s].notice => job \in Upright(s)
      BY <1>j, <2>1
    <3>4. sessions[s].notice /\ (\A k \in DOMAIN working : working[k] \in Upright(s)) =>
            \A k \in DOMAIN working' : working'[k] \in Upright(s)
      BY <1>w, <2>1, <3>3
    <3> QED
      BY <1>s, <2>1, <3>1, <3>2, <3>4
  <2> QED
    BY <1>g, <2>4
<1> QED
  BY <1>1, <1>2, <1>3, <1>4, <1>5, <1>6, <1>7, <1>8 DEF Moves

-----------------------------------------------------------------------------
(***************************************************************************)
(* What the page shows at rest.                                            *)
(***************************************************************************)

LEMMA PageInvStart == Init => PageInv
BY DEF Init, PageInv, Loading, LastNotices, AllHere, RecordsHere, RulesHere, Once,
   NoticesToCome, NoticesHere, SessionHere, Selected

LEMMA PageInvStep ==
    ASSUME Typed, PageInv, [Next]_vars
    PROVE  Typed' /\ PageInv'
<1>1. CASE UNCHANGED vars
  <2>1. /\ page' = page /\ requests' = requests /\ working' = working /\ replies' = replies
        /\ sessions' = sessions /\ rules' = rules /\ acts' = acts /\ calm' = calm
        /\ ruled' = ruled
    BY <1>1 DEF vars
  <2>2. Typed'
    BY <2>1 DEF Typed, Unheard, KnownPage, KnownCall, KnownJob, KnownRules, KnownSummary,
       Answer, ValueOf
  <2>3. Loading' /\ LastNotices'
    BY <2>1 DEF PageInv, Loading, Has, Ends, Taken, Answered, LastNotices, NoticesLast, Own
  <2>4. AllHere' /\ RecordsHere'
    BY <2>1 DEF PageInv, AllHere, Here, RecordsHere, Selected
  <2>5. RulesHere'
    BY <2>1 DEF PageInv, RulesHere, RulesAsked, LastSays, ListEventRulesForSump, RulesOf,
       Selected
  <2>6. Once' /\ NoticesToCome' /\ NoticesHere'
    BY <2>1 DEF PageInv, Once, NoticesToCome, NoticesHere, ChainAsked, ChainAnswered, Chain,
       Dismisses, Up, Dismissing, Selected
  <2>7. SessionHere'
    BY <2>1 DEF PageInv, SessionHere, LastSays, TrueSession, KnownSummary, Active, Selected
  <2> QED
    BY <2>2, <2>3, <2>4, <2>5, <2>6, <2>7 DEF PageInv
<1>2. CASE Next
  <2>1. Typed' /\ Moves /\ Grows
    BY <1>2, NextMoves, TypedStep
  <2>2. Loading' /\ LastNotices'
    BY <2>1, LoadingStep, LastNoticesStep DEF PageInv
  <2>3. AllHere' /\ RecordsHere'
    BY <2>1, AllHereStep, RecordsHereStep DEF PageInv
  <2>4. RulesHere' /\ SessionHere'
    BY <2>1, RulesHereStep, SessionHereStep DEF PageInv
  <2>5. Once' /\ NoticesToCome' /\ NoticesHere'
    BY <2>1, OnceStep, NoticesToComeStep, NoticesHereStep DEF PageInv
  <2> QED
    BY <2>1, <2>2, <2>3, <2>4, <2>5 DEF PageInv
<1> QED
  BY <1>1, <1>2

LEMMA PageInvAlways == Spec => [](Typed /\ PageInv)
<1>1. Init => Typed /\ PageInv
  BY TypedStart, PageInvStart
<1>2. Typed /\ PageInv /\ [Next]_vars => Typed' /\ PageInv'
  BY PageInvStep
<1> QED
  BY <1>1, <1>2, PTL DEF Spec

\* When every call is answered and the sump was selected while none was on its way,
\* the page is not loading, a page that is ready shows the records of this sump, the
\* rules are those the catalog lists, and each notice is up and of a session of this
\* sump: no answer asked for by the render of another sump, and no copy of a row
\* written back late, is left on it.
THEOREM RestShowsThisSump == Spec => []RestShowsSelected
<1>1. Typed /\ PageInv => RestShowsSelected
  <2> SUFFICES ASSUME Typed, PageInv, AtRest
               PROVE  /\ page.phase # "loading"
                      /\ page.phase = "ready" => page.records = page.sump
                      /\ page.rules = ListEventRulesForSump(page.sump)
                      /\ \A s \in page.notices :
                           sessions[s].sump = page.sump /\ sessions[s].notice
    BY DEF RestShowsSelected
  <2>1. /\ page # Null /\ Selected /\ requests = << >> /\ working = << >> /\ replies = << >>
    BY DEF AtRest, Still, Selected
  <2>2. DOMAIN requests = {} /\ DOMAIN working = {} /\ DOMAIN replies = {}
    BY <2>1
  <2>3. page.phase # "loading"
    BY <2>1, <2>2 DEF PageInv, Loading, Has, Taken, Answered
  <2>4. page.phase = "ready" => page.records = page.sump
    BY <2>1 DEF PageInv, RecordsHere
  <2>5. page.rules = ListEventRulesForSump(page.sump)
    BY <2>1, <2>2 DEF PageInv, RulesHere, RulesAsked, LastSays
  <2>6. ~(ChainAsked \/ ChainAnswered)
    BY <2>2 DEF ChainAsked, ChainAnswered
  <2>7. \A s \in page.notices : sessions[s].sump = page.sump /\ sessions[s].notice
    BY <2>1, <2>2, <2>6 DEF PageInv, NoticesHere, Up, Dismissing
  <2> QED
    BY <2>3, <2>4, <2>5, <2>7
<1> QED
  BY <1>1, PageInvAlways, PTL

\* And the session whose buttons it offers is one of this sump with the status the
\* catalog has for it, or the sump has none that records or is paused: the last of a
\* start, a pause, a resume and a stop to be answered says what the table says, until
\* a rule moves a session without the page asking.
THEOREM RestShowsThisSession == Spec => []RestShowsSession
<1>1. Typed /\ PageInv => RestShowsSession
  <2> SUFFICES ASSUME Typed, PageInv, AtRest, ~ruled
               PROVE  IF page.session = Null THEN Active(page.sump) = {}
                      ELSE /\ page.session.sump = page.sump
                           /\ page.session.status = sessions[page.session.id].status
    BY DEF RestShowsSession
  <2>1. Selected /\ DOMAIN requests = {} /\ DOMAIN replies = {}
    BY DEF AtRest, Still, Selected
  <2>2. page.session \in TrueSession(page.sump)
    BY <2>1 DEF PageInv, SessionHere, LastSays
  <2> QED
    BY <2>2 DEF TrueSession
<1> QED
  BY <1>1, PageInvAlways, PTL
=============================================================================
