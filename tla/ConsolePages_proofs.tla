------------------------- MODULE ConsolePages_proofs -------------------------
(***************************************************************************)
(* Theorems about the pages of the console that follow what goes on in the *)
(* engine (StatsPage, LogStream, OpsPanel) and about the way in and out    *)
(* (ConsoleSession), for any number of visits, entries, records, tabs,     *)
(* sessions and calls.                                                     *)
(***************************************************************************)
EXTENDS StatsPage, LogStream, OpsPanel, ConsoleSession, SequenceTheorems, TLAPS

-----------------------------------------------------------------------------
(* Sequences.                                                              *)

\* An element of a sequence is replaced.
LEMMA SeqPut ==
    ASSUME NEW S, NEW s \in Seq(S), NEW n \in 1..Len(s), NEW e \in S, NEW t,
           t = [s EXCEPT ![n] = e]
    PROVE  /\ t \in Seq(S) /\ Len(t) = Len(s)
           /\ \A m \in 1..Len(s) : t[m] = IF m = n THEN e ELSE s[m]
BY ExceptSeq, SMT

\* An element is added at the end.
LEMMA SeqAdd ==
    ASSUME NEW S, NEW s \in Seq(S), NEW e \in S, NEW t, t = Append(s, e)
    PROVE  /\ t \in Seq(S) /\ Len(t) = Len(s) + 1
           /\ \A m \in 1..Len(s) : t[m] = s[m]
           /\ t[Len(s) + 1] = e
<1>1. /\ Append(s, e) \in Seq(S) /\ Len(Append(s, e)) = Len(s) + 1
      /\ \A m \in 1..Len(s) : Append(s, e)[m] = s[m]
      /\ Append(s, e)[Len(s) + 1] = e
  BY AppendProperties
<1> QED
  BY <1>1, Zenon

-----------------------------------------------------------------------------
(* StatsPage.                                                              *)

\* The visits that a page shows have a timer as soon as a poll of theirs is
\* under way, or has brought something.
StatsInv == \A n \in DOMAIN visits :
    visits[n].shown /\ (visits[n].data \/ visits[n].polls > 0) => visits[n].timer

\* A visit is replaced by one that keeps to both.
LEMMA VisitPut ==
    ASSUME StatsTypeOK, StatsInv, NEW n \in DOMAIN visits, NEW v \in AVisit,
           visits' = [visits EXCEPT ![n] = v],
           v.shown /\ (v.data \/ v.polls > 0) => v.timer
    PROVE  StatsTypeOK' /\ StatsInv'
<1>1. visits \in Seq(AVisit) /\ n \in 1..Len(visits)
  BY LenProperties DEF StatsTypeOK
<1>2. /\ visits' \in Seq(AVisit) /\ Len(visits') = Len(visits)
      /\ \A m \in 1..Len(visits) : visits'[m] = IF m = n THEN v ELSE visits[m]
  BY <1>1, SeqPut
<1>3. DOMAIN visits = 1..Len(visits) /\ DOMAIN visits' = 1..Len(visits)
  BY <1>1, <1>2, LenProperties
<1>4. StatsTypeOK'
  BY <1>2 DEF StatsTypeOK
<1>5. StatsInv'
  BY <1>2, <1>3 DEF StatsInv
<1> QED BY <1>4, <1>5

\* There is no visit at the start.
LEMMA StatsStart == StatsInit => StatsTypeOK /\ StatsInv
BY EmptySeq, StatsAssumption DEF StatsInit, StatsTypeOK, StatsInv

\* Every step keeps types and timers.
LEMMA StatsStep == StatsTypeOK /\ StatsInv /\ [StatsNext]_visits => StatsTypeOK' /\ StatsInv'
<1> SUFFICES ASSUME StatsTypeOK, StatsInv, [StatsNext]_visits
             PROVE  StatsTypeOK' /\ StatsInv'
  OBVIOUS
<1> USE StatsAssumption
<1>1. CASE OpenPage
  <2> DEFINE new == [shown |-> TRUE, loading |-> TRUE, data |-> FALSE,
                     timer |-> FALSE, first |-> TRUE, polls |-> 0]
  <2>1. new \in AVisit /\ ~new.data /\ new.polls = 0
    BY DEF AVisit
  <2>0. Len(visits) < MaxVisits
    BY <1>1 DEF OpenPage
  <2>2. visits' = Append(visits, new)
    BY <1>1 DEF OpenPage
  <2> HIDE DEF new
  <2>3. visits \in Seq(AVisit) /\ DOMAIN visits = 1..Len(visits)
    BY LenProperties DEF StatsTypeOK
  <2>4. /\ visits' \in Seq(AVisit) /\ Len(visits') = Len(visits) + 1
        /\ \A n \in 1..Len(visits) : visits'[n] = visits[n]
        /\ visits'[Len(visits) + 1] = new
    <3>1. new \in AVisit /\ visits \in Seq(AVisit)
      BY <2>1, <2>3
    <3> QED BY <2>2, <3>1, SeqAdd, SMT
  <2>5. DOMAIN visits' = 1..Len(visits')
    BY <2>4, LenProperties
  <2>6. StatsTypeOK'
    <3>1. Len(visits) \in Nat
      BY <2>3, LenProperties
    <3>2. Len(visits) + 1 <= MaxVisits
      BY <2>0, <3>1
    <3> QED BY <2>4, <3>2 DEF StatsTypeOK
  <2>7. StatsInv'
    <3> SUFFICES ASSUME NEW n \in DOMAIN visits'
                 PROVE  (visits'[n].shown /\ (visits'[n].data \/ visits'[n].polls > 0))
                           => visits'[n].timer
      BY DEF StatsInv
    <3>1. n \in 1..Len(visits) \/ n = Len(visits) + 1
      BY <2>3, <2>4, <2>5
    <3> QED BY <3>1, <2>1, <2>3, <2>4 DEF StatsInv
  <2> QED BY <2>6, <2>7
<1>2. ASSUME NEW n \in DOMAIN visits,
             LeavePage(n) \/ AnswerFirst(n) \/ FailFirst(n) \/ Poll(n) \/ EndPoll(n)
      PROVE  StatsTypeOK' /\ StatsInv'
  <2>1. visits[n] \in AVisit
    BY LenProperties, ElementOfSeq DEF StatsTypeOK
  <2>2. visits[n].shown /\ (visits[n].data \/ visits[n].polls > 0) => visits[n].timer
    BY DEF StatsInv
  <2>3. CASE LeavePage(n)
    <3> DEFINE v == [visits[n] EXCEPT !.shown = FALSE, !.timer = FALSE]
    <3>1. v \in AVisit /\ ~v.shown
      BY <2>1 DEF AVisit
    <3>2. visits' = [visits EXCEPT ![n] = v]
      BY <2>3 DEF LeavePage
    <3> QED BY <3>1, <3>2, VisitPut
  <2>4. CASE AnswerFirst(n)
    <3>1. PICK good \in BOOLEAN :
              visits' = [visits EXCEPT ![n] = [StartTimer(@) EXCEPT !.data = good]]
      BY <2>4 DEF AnswerFirst
    <3> DEFINE v == [StartTimer(visits[n]) EXCEPT !.data = good]
    <3>2. v \in AVisit /\ v.timer
      BY <2>1 DEF AVisit, StartTimer
    <3>3. visits' = [visits EXCEPT ![n] = v]
      BY <3>1
    <3> QED BY <3>2, <3>3, VisitPut
  <2>5. CASE FailFirst(n)
    <3> DEFINE v == [visits[n] EXCEPT !.first = FALSE, !.loading = FALSE]
    <3>1. /\ v \in AVisit /\ v.shown = visits[n].shown /\ v.data = visits[n].data
          /\ v.polls = visits[n].polls /\ v.timer = visits[n].timer
      BY <2>1 DEF AVisit
    <3>2. visits' = [visits EXCEPT ![n] = v]
      BY <2>5 DEF FailFirst
    <3> HIDE DEF v
    <3> QED BY <2>2, <3>1, <3>2, VisitPut
  <2>6. CASE Poll(n)
    <3> DEFINE v == [visits[n] EXCEPT !.polls = @ + 1]
    <3>1. v \in AVisit /\ v.timer
      BY <2>1, <2>6 DEF AVisit, Poll
    <3>2. visits' = [visits EXCEPT ![n] = v]
      BY <2>6 DEF Poll
    <3> QED BY <3>1, <3>2, VisitPut
  <2>7. CASE EndPoll(n)
    <3>1. PICK good \in BOOLEAN :
              visits' = [visits EXCEPT ![n].polls = @ - 1, ![n].data = @ \/ good]
      BY <2>7 DEF EndPoll
    <3> DEFINE v == [visits[n] EXCEPT !.polls = @ - 1, !.data = @ \/ good]
    <3>2. v \in AVisit /\ v.shown = visits[n].shown /\ v.timer = visits[n].timer
      <4>1. visits[n].polls - 1 \in 0..MaxPolls
        <5>1. visits[n].polls \in 0..MaxPolls /\ visits[n].polls > 0
          BY <2>1, <2>7 DEF AVisit, EndPoll
        <5> QED BY <5>1
      <4> QED BY <2>1, <4>1 DEF AVisit
    <3>3. visits' = [visits EXCEPT ![n] = v]
      BY <3>1
    <3>4. visits[n].polls > 0
      BY <2>7 DEF EndPoll
    <3> HIDE DEF v
    <3> QED BY <2>2, <3>2, <3>3, <3>4, VisitPut
  <2> QED BY <1>2, <2>3, <2>4, <2>5, <2>6, <2>7
<1>3. CASE UNCHANGED visits
  BY <1>3 DEF StatsTypeOK, StatsInv
<1> QED BY <1>1, <1>2, <1>3 DEF StatsNext

\* The visits of the pages that poll (EngineOverviewView.vue,
\* SystemMonitorView.vue) are what their types say, for any number of them.
THEOREM StatsTypeCorrect == StatsSpec => []StatsTypeOK
<1>1. QED BY StatsStart, StatsStep, PTL DEF StatsSpec

\* A page that shows figures goes on polling for newer ones: it never stands still
\* with what it once loaded.
THEOREM ShownStaysFresh == StatsSpec => []ShownIsRefreshed
<1>1. StatsTypeOK /\ StatsInv => ShownIsRefreshed
  BY DEF StatsInv, ShownIsRefreshed
<1> QED BY <1>1, StatsStart, StatsStep, PTL DEF StatsSpec

-----------------------------------------------------------------------------

(* LogStream.                                                              *)

\* The stream is there only after the history was answered, and no timer
\* waits while it is open.
LogTyped == /\ LogTypeOK
            /\ Len(logs.history) <= MaxEntries
            /\ logs.call # "none" => ~logs.ran
            /\ ~logs.ran => logs.timers = 0 /\ stream.at = "closed"
            /\ stream.at # "closed" => logs.timers = 0
            /\ stream.at # "subscribed" => stream.channel = <<>>
            /\ stream.at \in {"closed", "opening"} => stream.wire = <<>>

\* The last elements of L are those of s, counted from the end.
EndsWith(L, s) == /\ Len(s) <= Len(L)
                  /\ \A d \in 0..(Len(s) - 1) : s[Len(s) - d] = L[Len(L) - d]

\* All that was read or will be: the list, what waits for the next frame,
\* what is on its way and what the subscriber holds.
AllRead == ((logs.entries \o logs.pending) \o stream.wire) \o stream.channel
TailHeard == stream.at \in {"replayed", "subscribed"} /\ ~stream.gap
             => EndsWith(AllRead, Recent(hub, ReplaySize))

\* The last elements of a sequence.
LEMMA RecentOK ==
    ASSUME NEW S, NEW s \in Seq(S), NEW n \in Nat
    PROVE  /\ Recent(s, n) \in Seq(S)
           /\ Len(Recent(s, n)) = IF Len(s) <= n THEN Len(s) ELSE n
           /\ EndsWith(s, Recent(s, n))
<1>1. /\ Len(s) \in Nat /\ DOMAIN s = 1..Len(s)
      /\ \A m \in 1..Len(s) : s[m] \in S
  BY LenProperties, ElementOfSeq
<1>2. CASE Len(s) <= n
  BY <1>1, <1>2 DEF Recent, EndsWith
<1>3. CASE ~(Len(s) <= n)
  <2> DEFINE a == Len(s) - n + 1
             b == Len(s)
             r == SubSeq(s, a, b)
  <2>1. a \in Int /\ b \in Int /\ a \in 1..(b + 1) /\ b - a + 1 = n
        /\ (IF a <= b THEN b - a + 1 ELSE 0) = n
    BY <1>1, <1>3
  <2>2. \A m \in a..b : s[m] \in S
    BY <1>1, <2>1
  <2> HIDE DEF a, b
  <2>3. /\ r \in Seq(S) /\ Len(r) = n
        /\ \A m \in 1..n : r[m] = s[a + m - 1]
    <3>1. /\ r \in Seq(S) /\ Len(r) = (IF a <= b THEN b - a + 1 ELSE 0)
          /\ \A m \in 1..(b - a + 1) : r[m] = s[a + m - 1]
      BY <2>1, <2>2, SubSeqProperties
    <3> QED
      BY <2>1, <3>1
  <2> HIDE DEF r
  <2>4. EndsWith(s, r)
    <3>1. ASSUME NEW d \in 0..(n - 1) PROVE r[n - d] = s[Len(s) - d]
      <4>1. n - d \in 1..n /\ a + (n - d) - 1 = Len(s) - d
        BY <1>1 DEF a
      <4> QED
        BY <2>3, <4>1
    <3> QED
      BY <1>1, <1>3, <2>3, <3>1 DEF EndsWith
  <2>5. Recent(s, n) = r
    BY <1>3 DEF Recent, a, b, r
  <2> QED
    BY <1>3, <2>3, <2>4, <2>5
<1> QED
  BY <1>2, <1>3

\* A list that ends with s: its last elements are s.
LEMMA EndIsRecent ==
    ASSUME NEW S, NEW L \in Seq(S), NEW s \in Seq(S), EndsWith(L, s)
    PROVE  Recent(L, Len(s)) = s
<1>1. Len(s) \in Nat /\ Len(L) \in Nat /\ Len(s) <= Len(L)
  BY LenProperties DEF EndsWith
<1> DEFINE r == Recent(L, Len(s))
<1>2. r \in Seq(S) /\ Len(r) = (IF Len(L) <= Len(s) THEN Len(L) ELSE Len(s)) /\ EndsWith(L, r)
  BY <1>1, RecentOK, Zenon
<1> HIDE DEF r
<1>3. Len(r) = Len(s)
  BY <1>1, <1>2
<1>4. ASSUME NEW m \in 1..Len(r) PROVE r[m] = s[m]
  <2>1. PICK d \in 0..(Len(s) - 1) : m = Len(s) - d
    <3>1. Len(s) - m \in 0..(Len(s) - 1) /\ m = Len(s) - (Len(s) - m)
      BY <1>1, <1>3
    <3> QED
      BY <3>1
  <2> QED
    BY <1>2, <1>3, <2>1 DEF EndsWith
<1>5. r = s
  BY <1>2, <1>3, <1>4, SeqEqual, Zenon
<1> QED
  BY <1>5 DEF r

\* The end of an end.
LEMMA EndsTrans ==
    ASSUME NEW S, NEW L \in Seq(S), NEW s \in Seq(S), NEW r \in Seq(S),
           EndsWith(L, s), EndsWith(s, r)
    PROVE  EndsWith(L, r)
<1>1. Len(L) \in Nat /\ Len(s) \in Nat /\ Len(r) \in Nat
  BY LenProperties
<1> QED
  BY <1>1 DEF EndsWith

\* Two ends of a list: the shorter one ends the longer one.
LEMMA EndOfEnd ==
    ASSUME NEW S, NEW L \in Seq(S), NEW s \in Seq(S), NEW r \in Seq(S),
           EndsWith(L, s), EndsWith(L, r), Len(r) <= Len(s)
    PROVE  EndsWith(s, r)
<1>1. Len(L) \in Nat /\ Len(s) \in Nat /\ Len(r) \in Nat
  BY LenProperties
<1> QED
  BY <1>1 DEF EndsWith

\* An element is added to a list and to its end.
LEMMA EndsAppend ==
    ASSUME NEW S, NEW L \in Seq(S), NEW s \in Seq(S), NEW e \in S, EndsWith(L, s)
    PROVE  EndsWith(Append(L, e), Append(s, e))
<1>1. Len(L) \in Nat /\ Len(s) \in Nat
  BY LenProperties
<1> DEFINE A == Append(L, e)
           a == Append(s, e)
<1>a. A = Append(L, e) /\ a = Append(s, e)
  OBVIOUS
<1> HIDE DEF A, a
<1>2. /\ Len(A) = Len(L) + 1 /\ \A m \in 1..Len(L) : A[m] = L[m]
      /\ A[Len(L) + 1] = e
  BY <1>a, SeqAdd, SMT
<1>3. /\ Len(a) = Len(s) + 1 /\ \A m \in 1..Len(s) : a[m] = s[m]
      /\ a[Len(s) + 1] = e
  BY <1>a, SeqAdd, SMT
<1>4. Len(a) <= Len(A)
  BY <1>1, <1>2, <1>3 DEF EndsWith
<1>5. ASSUME NEW d \in 0..(Len(a) - 1) PROVE a[Len(a) - d] = A[Len(A) - d]
  <2>1. CASE d = 0
    BY <1>1, <1>2, <1>3, <2>1
  <2>2. CASE d # 0
    <3> DEFINE c == d - 1
    <3>1. /\ c \in 0..(Len(s) - 1) /\ Len(a) - d = Len(s) - c /\ Len(A) - d = Len(L) - c
          /\ Len(s) - c \in 1..Len(s) /\ Len(L) - c \in 1..Len(L)
      BY <1>1, <1>2, <1>3, <2>2 DEF EndsWith
    <3> HIDE DEF c
    <3> QED
      BY <1>2, <1>3, <3>1 DEF EndsWith
  <2> QED
    BY <2>1, <2>2
<1>6. EndsWith(A, a)
  BY <1>4, <1>5 DEF EndsWith
<1> QED
  BY <1>6 DEF A, a

\* The newest entries of the hub after a push, and what was read with it.
LEMMA EndsPushed ==
    ASSUME NEW S, NEW L \in Seq(S), NEW h \in Seq(S), NEW e \in S, NEW H \in Nat, NEW K \in Nat \ {0},
           EndsWith(L, Recent(h, K))
    PROVE  EndsWith(Append(L, e), Recent(Recent(Append(h, e), H), K))
<1> DEFINE s == Recent(h, K)
           A == Append(h, e)
           q == Recent(A, H)
           r == Recent(q, K)
           a == Append(s, e)
<1>1. s \in Seq(S) /\ Len(s) = (IF Len(h) <= K THEN Len(h) ELSE K) /\ EndsWith(h, s)
  BY RecentOK
<1>2. A \in Seq(S) /\ Len(A) = Len(h) + 1 /\ Len(h) \in Nat
  BY AppendProperties, LenProperties, Zenon
<1> HIDE DEF A
<1>3. q \in Seq(S) /\ EndsWith(A, q)
  BY <1>2, RecentOK
<1> HIDE DEF q
<1>4. r \in Seq(S) /\ EndsWith(q, r) /\ Len(r) = (IF Len(q) <= K THEN Len(q) ELSE K) /\ Len(q) \in Nat
  BY <1>3, RecentOK, LenProperties
<1> HIDE DEF r, s
<1>5. a \in Seq(S) /\ Len(a) = Len(s) + 1 /\ EndsWith(A, a)
  BY <1>1, EndsAppend, AppendProperties DEF A
<1>6. EndsWith(Append(L, e), a) /\ Append(L, e) \in Seq(S)
  BY <1>1, EndsAppend, AppendProperties DEF s
<1> HIDE DEF a
<1>7. EndsWith(A, r)
  BY <1>2, <1>3, <1>4, EndsTrans
<1>8. Len(r) <= Len(a)
  BY <1>1, <1>2, <1>4, <1>5, <1>7 DEF EndsWith
<1>9. EndsWith(a, r)
  BY <1>2, <1>4, <1>5, <1>7, <1>8, EndOfEnd
<1>10. EndsWith(Append(L, e), r)
  BY <1>4, <1>5, <1>6, <1>9, EndsTrans
<1> QED
  BY <1>10 DEF r, q, A

\* To trim a list keeps its end.
LEMMA EndsTrim ==
    ASSUME NEW S, NEW x \in Seq(S), NEW y \in Seq(S), NEW s \in Seq(S), NEW n \in Nat,
           Len(s) <= n, EndsWith(x \o y, s)
    PROVE  EndsWith(Recent(x, n) \o y, s)
<1> DEFINE t == Recent(x, n)
           X == x \o y
           T == t \o y
<1>1. /\ t \in Seq(S) /\ Len(t) = (IF Len(x) <= n THEN Len(x) ELSE n) /\ EndsWith(x, t)
  BY RecentOK
<1> HIDE DEF t
<1>2. /\ Len(X) = Len(x) + Len(y)
      /\ \A i \in 1..(Len(x) + Len(y)) : X[i] = IF i <= Len(x) THEN x[i] ELSE y[i - Len(x)]
  BY ConcatProperties, Zenon
<1>3. /\ Len(T) = Len(t) + Len(y)
      /\ \A i \in 1..(Len(t) + Len(y)) : T[i] = IF i <= Len(t) THEN t[i] ELSE y[i - Len(t)]
  BY <1>1, ConcatProperties, Zenon
<1>4. /\ Len(x) \in Nat /\ Len(y) \in Nat /\ Len(t) \in Nat /\ Len(s) \in Nat
  BY <1>1, LenProperties
<1>5. EndsWith(X, s)
  OBVIOUS
<1> HIDE DEF X, T
<1>6. Len(s) <= Len(T)
  BY <1>1, <1>2, <1>3, <1>4, <1>5 DEF EndsWith
<1>7. ASSUME NEW d \in 0..(Len(s) - 1) PROVE s[Len(s) - d] = T[Len(T) - d]
  <2>1. s[Len(s) - d] = X[Len(X) - d] /\ d < Len(X) /\ d < Len(T)
    BY <1>2, <1>3, <1>4, <1>5, <1>6 DEF EndsWith
  <2>2. CASE d < Len(y)
    <3>1. /\ Len(X) - d \in 1..(Len(x) + Len(y)) /\ ~(Len(X) - d <= Len(x))
          /\ Len(X) - d - Len(x) = Len(y) - d
      BY <1>2, <1>4, <2>1, <2>2
    <3>2. /\ Len(T) - d \in 1..(Len(t) + Len(y)) /\ ~(Len(T) - d <= Len(t))
          /\ Len(T) - d - Len(t) = Len(y) - d
      BY <1>3, <1>4, <2>1, <2>2
    <3>3. X[Len(X) - d] = y[Len(y) - d]
      BY <1>2, <3>1
    <3>4. T[Len(T) - d] = y[Len(y) - d]
      BY <1>3, <3>2
    <3> QED
      BY <2>1, <3>3, <3>4
  <2>3. CASE ~(d < Len(y))
    <3> DEFINE c == d - Len(y)
    <3>0. c \in 0..(Len(t) - 1)
      BY <1>3, <1>4, <2>1, <2>3
    <3>1. /\ Len(X) - d \in 1..(Len(x) + Len(y)) /\ Len(X) - d <= Len(x)
          /\ Len(X) - d = Len(x) - c
      BY <1>2, <1>4, <2>1, <2>3
    <3>2. /\ Len(T) - d \in 1..(Len(t) + Len(y)) /\ Len(T) - d <= Len(t)
          /\ Len(T) - d = Len(t) - c
      BY <1>3, <1>4, <2>1, <2>3
    <3> HIDE DEF c
    <3>3. X[Len(X) - d] = x[Len(x) - c]
      BY <1>2, <3>1
    <3>4. T[Len(T) - d] = t[Len(t) - c]
      BY <1>3, <3>2
    <3>5. t[Len(t) - c] = x[Len(x) - c]
      BY <1>1, <3>0 DEF EndsWith
    <3> QED
      BY <2>1, <3>3, <3>4, <3>5
  <2> QED
    BY <2>2, <2>3
<1>8. EndsWith(T, s)
  BY <1>6, <1>7 DEF EndsWith
<1> QED
  BY <1>8 DEF T, t

\* The lists of entries, and what they are when they are joined.
Lists == Seq(1..MaxLog)

\* Two lists in a row are a list.
LEMMA ListsJoin ==
    ASSUME NEW a \in Lists, NEW b \in Lists
    PROVE  a \o b \in Lists
BY ConcatProperties DEF Lists

\* It does not matter which two are joined first.
LEMMA ListsRegroup ==
    ASSUME NEW a \in Lists, NEW b \in Lists, NEW c \in Lists
    PROVE  (a \o b) \o c = a \o (b \o c)
<1> DEFINE T == 1..MaxLog
<1>1. a \in Seq(T)
  BY DEF Lists
<1>2. b \in Seq(T)
  BY DEF Lists
<1>3. c \in Seq(T)
  BY DEF Lists
<1> HIDE DEF T
<1> QED
  BY <1>1, <1>2, <1>3, ConcatAssociative

\* The head of a part moves to the end of the part before it.
LEMMA HeadMoves ==
    ASSUME NEW a \in Lists, NEW b \in Lists, NEW c \in Lists, c # <<>>
    PROVE  (a \o Append(b, Head(c))) \o Tail(c) = (a \o b) \o c
<1> DEFINE head == Head(c)
           tail == Tail(c)
           one == <<head>>
           more == b \o one
<1>1. head \in 1..MaxLog
  BY HeadTailProperties DEF Lists
<1>t. tail \in Lists
  BY HeadTailProperties DEF Lists
<1>2. c = one \o tail
  <2>1. Len(c) \in Nat \ {0} /\ head = c[1]
    BY EmptySeq, LenProperties DEF Lists
  <2>2. 1 \in 1..Len(c) /\ Len(c) \in 1..Len(c)
    BY <2>1
  <2>3. SubSeq(c, 1, Len(c)) = <<c[1]>> \o SubSeq(c, 1 + 1, Len(c))
    BY <2>2, SubSeqRecursiveFirst DEF Lists
  <2>4. SubSeq(c, 1, Len(c)) = c /\ tail = SubSeq(c, 2, Len(c))
    BY SubSeqFull, TailIsSubSeq DEF Lists
  <2>5. 1 + 1 = 2
    OBVIOUS
  <2> QED
    BY <2>1, <2>3, <2>4, <2>5
<1> HIDE DEF head, tail
<1>o. one \in Lists
  BY <1>1 DEF Lists
<1>3. Append(b, head) = more
  BY <1>1, AppendIsConcat DEF Lists
<1> HIDE DEF one
<1>4. more \in Lists
  BY <1>o, ListsJoin
<1>5. more \o tail = b \o c
  <2>1. (b \o one) \o tail = b \o (one \o tail)
    BY <1>o, <1>t, ListsRegroup
  <2> QED
    BY <1>2, <2>1
<1> HIDE DEF more
<1>6. (a \o more) \o tail = a \o (more \o tail)
  BY <1>4, <1>t, ListsRegroup
<1>7. (a \o b) \o c = a \o (b \o c)
  BY ListsRegroup
<1>8. (a \o Append(b, head)) \o tail = (a \o b) \o c
  BY <1>3, <1>5, <1>6, <1>7
<1> QED
  BY <1>8 DEF head, tail

\* The page starts with empty lists and a closed stream.
LEMMA LogStarts == LogInit => LogTyped /\ TailHeard
<1> SUFFICES ASSUME LogInit PROVE LogTyped /\ TailHeard
  OBVIOUS
<1>1. <<>> \in Seq(1..MaxLog) /\ Len(<<>>) = 0
  BY EmptySeq
<1>2. HubSize \in Nat /\ MaxEntries \in Nat /\ ChannelSize \in Nat /\ MaxLog \in Nat /\ MaxUpsets \in Nat
  BY LogAssumption
<1>3. logs \in Logs /\ logs.entries = <<>>
  BY <1>1 DEF LogInit, Logs
<1>4. stream \in Stream /\ stream.channel = <<>> /\ stream.wire = <<>> /\ stream.at = "closed"
  BY <1>1 DEF LogInit, ClosedStream, Stream
<1>5. hub \in Seq(1..MaxLog) /\ Len(hub) <= HubSize /\ pushed \in 0..MaxLog /\ upsets \in 0..MaxUpsets
  BY <1>1, <1>2 DEF LogInit
<1>6. LogTypeOK
  BY <1>1, <1>2, <1>3, <1>4, <1>5 DEF LogTypeOK
<1>7. /\ logs.call = "none" /\ logs.timers = 0 /\ logs.history = <<>>
  BY DEF LogInit
<1> QED
  BY <1>1, <1>2, <1>4, <1>6, <1>7 DEF LogTyped, TailHeard

\* The streams that a step leaves closed or open anew.
LEMMA FreshStreams ==
    /\ ClosedStream \in Stream /\ ClosedStream.at = "closed"
    /\ ClosedStream.channel = <<>> /\ ClosedStream.wire = <<>>
    /\ OpeningStream \in Stream /\ OpeningStream.at = "opening"
    /\ OpeningStream.channel = <<>> /\ OpeningStream.wire = <<>>
<1>1. <<>> \in Seq(1..MaxLog)
  BY EmptySeq
<1> QED
  BY <1>1 DEF ClosedStream, OpeningStream, Stream

\* Every step keeps the types and the bounds of the lists.
LEMMA LogTypesKept == LogTyped /\ [LogNext]_logVars => LogTyped'
<1> SUFFICES ASSUME LogTyped, [LogNext]_logVars PROVE LogTyped'
  OBVIOUS
<1>0. /\ MaxLog \in Nat /\ MaxUpsets \in Nat /\ HubSize \in Nat /\ HistorySize \in Nat
      /\ ReplaySize \in Nat /\ ChannelSize \in Nat /\ MaxEntries \in Nat
      /\ ReplaySize <= MaxEntries /\ HistorySize <= MaxEntries
  BY LogAssumption
<1>t. /\ hub \in Seq(1..MaxLog) /\ Len(hub) <= HubSize /\ pushed \in 0..MaxLog
      /\ logs \in Logs /\ Len(logs.entries) <= MaxEntries
      /\ stream \in Stream /\ Len(stream.channel) <= ChannelSize
      /\ upsets \in 0..MaxUpsets
  BY DEF LogTyped, LogTypeOK
<1>f. /\ Len(logs.history) <= MaxEntries /\ logs.entries \in Seq(1..MaxLog) /\ logs.pending \in Seq(1..MaxLog)
      /\ logs.history \in Seq(1..MaxLog) /\ logs.timers \in 0..1
      /\ stream.channel \in Seq(1..MaxLog) /\ stream.wire \in Seq(1..MaxLog)
      /\ <<>> \in Seq(1..MaxLog) /\ Len(<<>>) = 0
  BY <1>t, EmptySeq DEF Logs, Stream, LogTyped
<1>w. /\ logs.call # "none" => ~logs.ran
      /\ ~logs.ran => logs.timers = 0 /\ stream.at = "closed"
      /\ stream.at # "closed" => logs.timers = 0
      /\ stream.at # "subscribed" => stream.channel = <<>>
      /\ stream.at \in {"closed", "opening"} => stream.wire = <<>>
  BY DEF LogTyped
<1>1. CASE PushEntry
  <2> DEFINE n == pushed + 1
             long == Append(hub, n)
  <2>1. n \in 1..MaxLog /\ pushed' = n /\ n \in 0..MaxLog
    BY <1>1, <1>0, <1>t DEF PushEntry
  <2>2. hub' = Recent(long, HubSize) /\ UNCHANGED <<logs, upsets>>
    BY <1>1 DEF PushEntry
  <2>s. stream' = CASE stream.at = "subscribed" /\ Len(stream.channel) < ChannelSize ->
                        [stream EXCEPT !.channel = Append(@, n)]
                   [] stream.at = "subscribed" /\ Len(stream.channel) = ChannelSize ->
                        [stream EXCEPT !.gap = TRUE]
                   [] stream.at = "replayed" -> [stream EXCEPT !.gap = TRUE]
                   [] OTHER -> stream
    BY <1>1 DEF PushEntry
  <2> HIDE DEF n
  <2>3. long \in Seq(1..MaxLog)
    BY <1>t, <2>1, AppendProperties
  <2> HIDE DEF long
  <2>4. /\ hub' \in Seq(1..MaxLog) /\ Len(hub') <= HubSize
    <3>1. /\ Recent(long, HubSize) \in Seq(1..MaxLog)
          /\ Len(Recent(long, HubSize)) = IF Len(long) <= HubSize THEN Len(long) ELSE HubSize
      BY <1>0, <2>3, RecentOK
    <3>2. Len(long) \in Nat
      BY <2>3, LenProperties
    <3> QED
      BY <1>0, <2>2, <3>1, <3>2
  <2>5. /\ stream' \in Stream /\ Len(stream'.channel) <= ChannelSize
        /\ stream'.at = stream.at /\ stream'.wire = stream.wire
        /\ stream.at # "subscribed" => stream'.channel = stream.channel
    <3>0. Len(stream.channel) \in Nat
      BY <1>f, LenProperties
    <3>1. CASE stream.at = "subscribed" /\ Len(stream.channel) < ChannelSize
      <4> DEFINE more == Append(stream.channel, n)
      <4>1. more \in Seq(1..MaxLog) /\ Len(more) = Len(stream.channel) + 1
        BY <1>f, <2>1, AppendProperties
      <4>2. stream' = [stream EXCEPT !.channel = more]
        BY <2>s, <3>1
      <4> HIDE DEF more
      <4>3. /\ stream' \in Stream /\ stream'.channel = more
            /\ stream'.at = stream.at /\ stream'.wire = stream.wire
        BY <1>t, <4>1, <4>2 DEF Stream
      <4>4. Len(more) <= ChannelSize
        BY <1>0, <3>0, <3>1, <4>1
      <4> QED
        BY <3>1, <4>3, <4>4
    <3>2. CASE ~(stream.at = "subscribed" /\ Len(stream.channel) < ChannelSize)
      <4>1. stream' = stream \/ stream' = [stream EXCEPT !.gap = TRUE]
        BY <2>s, <3>2
      <4> QED
        BY <1>t, <4>1 DEF Stream
    <3> QED
      BY <3>1, <3>2
  <2> QED
    BY <1>f, <1>t, <1>w, <2>1, <2>2, <2>4, <2>5 DEF LogTyped, LogTypeOK
<1>2. CASE OpenLogs
  BY <1>2, <1>t, <1>w DEF OpenLogs, LogTyped, LogTypeOK, Logs
<1>3. CASE ServeHistory
  <2> DEFINE all == Recent(hub, HistorySize)
  <2>1. all \in Seq(1..MaxLog) /\ Len(all) = IF Len(hub) <= HistorySize THEN Len(hub) ELSE HistorySize
    BY <1>0, <1>t, RecentOK
  <2>2. logs' = [logs EXCEPT !.call = "served", !.history = all] /\ UNCHANGED <<hub, pushed, stream, upsets>>
        /\ logs.call # "none"
    BY <1>3 DEF ServeHistory
  <2> HIDE DEF all
  <2>3. Len(all) <= MaxEntries
    BY <1>0, <1>t, <2>1
  <2>4. /\ logs' \in Logs /\ logs'.entries = logs.entries /\ logs'.history = all
        /\ logs'.ran = logs.ran /\ logs'.timers = logs.timers
    BY <1>t, <2>1, <2>2 DEF Logs
  <2> QED
    BY <1>t, <1>w, <2>2, <2>3, <2>4 DEF LogTyped, LogTypeOK
<1>4. CASE AnswerHistory
  <2>1. /\ logs' \in Logs /\ Len(logs'.entries) <= MaxEntries /\ logs'.call = "none" /\ logs'.ran
        /\ logs'.history = <<>>
        /\ logs'.timers = logs.timers
    <3>1. PICK good \in BOOLEAN :
             logs' = [logs EXCEPT !.call = "none", !.history = <<>>, !.ran = TRUE,
                                  !.entries = IF good THEN logs.history ELSE @]
      BY <1>4 DEF AnswerHistory
    <3> QED
      BY <1>f, <1>t, <3>1 DEF Logs
  <2>2. stream' = OpeningStream /\ UNCHANGED <<hub, pushed, upsets>> /\ logs.timers = 0
    BY <1>4, <1>w DEF AnswerHistory
  <2> QED
    BY <1>0, <1>f, <1>t, <1>w, <2>1, <2>2, FreshStreams DEF LogTyped, LogTypeOK
<1>5. CASE FailHistory
  <2>1. /\ logs' \in Logs /\ logs'.entries = logs.entries /\ logs'.call = "none"
        /\ logs'.history = <<>> /\ logs'.ran = logs.ran /\ logs'.timers = logs.timers
    BY <1>5, <1>f, <1>t DEF FailHistory, Logs
  <2>2. UNCHANGED <<hub, pushed, stream, upsets>>
    BY <1>5 DEF FailHistory
  <2> QED
    BY <1>0, <1>f, <1>t, <1>w, <2>1, <2>2 DEF LogTyped, LogTypeOK
<1>6. CASE Replay
  <2>1. Recent(hub, ReplaySize) \in Seq(1..MaxLog)
    BY <1>0, <1>t, RecentOK
  <2> QED
    BY <1>6, <1>t, <1>w, <2>1 DEF Replay, LogTyped, LogTypeOK, Stream
<1>7. CASE Subscribe
  BY <1>7, <1>t, <1>w DEF Subscribe, LogTyped, LogTypeOK, Stream
<1>8. CASE WriteEntry
  <2>1. /\ Append(stream.wire, Head(stream.channel)) \in Seq(1..MaxLog)
        /\ Tail(stream.channel) \in Seq(1..MaxLog)
        /\ Len(Tail(stream.channel)) = Len(stream.channel) - 1
    BY <1>8, <1>f, HeadTailProperties, AppendProperties DEF WriteEntry
  <2>2. Len(stream.channel) \in Nat
    BY <1>f, LenProperties
  <2>3. stream.at = "subscribed"
    BY <1>8, <1>w DEF WriteEntry
  <2>4. UNCHANGED <<hub, pushed, logs, upsets>>
    BY <1>8 DEF WriteEntry
  <2>5. /\ stream' \in Stream /\ stream'.at = "subscribed" /\ Len(stream'.channel) <= ChannelSize
    <3> DEFINE rest == Tail(stream.channel)
               more == Append(stream.wire, Head(stream.channel))
    <3>1. stream' = [stream EXCEPT !.wire = more, !.channel = rest]
      BY <1>8 DEF WriteEntry
    <3>2. Len(rest) <= ChannelSize /\ rest \in Seq(1..MaxLog) /\ more \in Seq(1..MaxLog)
      BY <1>0, <1>t, <2>1, <2>2
    <3> HIDE DEF rest, more
    <3>3. stream' \in Stream /\ stream'.at = stream.at /\ stream'.channel = rest
      BY <1>t, <3>1, <3>2 DEF Stream
    <3> QED
      BY <2>3, <3>2, <3>3
  <2> QED
    BY <1>f, <1>t, <1>w, <2>3, <2>4, <2>5 DEF LogTyped, LogTypeOK
<1>9. CASE ReadEntry
  <2>1. /\ Append(logs.pending, Head(stream.wire)) \in Seq(1..MaxLog)
        /\ Tail(stream.wire) \in Seq(1..MaxLog)
    BY <1>9, <1>f, HeadTailProperties, AppendProperties DEF ReadEntry
  <2>2. /\ logs' \in Logs /\ logs'.entries = logs.entries /\ logs'.call = logs.call /\ logs'.history = logs.history
        /\ logs'.ran = logs.ran /\ logs'.timers = logs.timers
    BY <1>9, <1>t, <2>1 DEF ReadEntry, Logs
  <2>3. /\ stream' \in Stream /\ stream'.at = stream.at /\ stream'.channel = stream.channel
        /\ stream.wire # <<>>
    BY <1>9, <1>t, <2>1 DEF ReadEntry, Stream
  <2>4. UNCHANGED <<hub, pushed, upsets>>
    BY <1>9 DEF ReadEntry
  <2> QED
    BY <1>f, <1>t, <1>w, <2>2, <2>3, <2>4 DEF LogTyped, LogTypeOK
<1>10. CASE Flush
  <2> DEFINE read == logs.entries \o logs.pending
             kept == Recent(read, MaxEntries)
  <2>1. read \in Seq(1..MaxLog)
    BY <1>f, ConcatProperties
  <2>2. Len(read) \in Nat
    BY <2>1, LenProperties
  <2>3. logs' = [logs EXCEPT !.entries = kept, !.pending = <<>>] /\ UNCHANGED <<hub, pushed, stream, upsets>>
    BY <1>10 DEF Flush
  <2> HIDE DEF read
  <2>4. kept \in Seq(1..MaxLog) /\ Len(kept) = IF Len(read) <= MaxEntries THEN Len(read) ELSE MaxEntries
    BY <1>0, <2>1, RecentOK
  <2> HIDE DEF kept
  <2>5. Len(kept) <= MaxEntries
    BY <1>0, <2>2, <2>4
  <2>6. /\ logs' \in Logs /\ logs'.entries = kept /\ logs'.call = logs.call /\ logs'.history = logs.history
        /\ logs'.ran = logs.ran /\ logs'.timers = logs.timers
    BY <1>f, <1>t, <2>3, <2>4 DEF Logs
  <2> QED
    BY <1>f, <1>t, <1>w, <2>3, <2>5, <2>6 DEF LogTyped, LogTypeOK
<1>11. CASE BreakStream
  <2>0. logs.timers + 1 = 1 /\ logs' = [logs EXCEPT !.timers = @ + 1]
    BY <1>11, <1>w DEF BreakStream
  <2>a. logs' = [logs EXCEPT !.timers = 1]
    BY <2>0
  <2>1. logs' \in Logs /\ logs'.entries = logs.entries /\ logs'.call = logs.call /\ logs'.history = logs.history /\ logs'.ran = logs.ran
    BY <1>t, <2>a DEF Logs
  <2>2. stream' = ClosedStream /\ upsets' \in 0..MaxUpsets /\ UNCHANGED <<hub, pushed>> /\ logs.ran
    BY <1>11, <1>0, <1>t, <1>w DEF BreakStream
  <2> QED
    BY <1>0, <1>f, <1>t, <1>w, <2>1, <2>2, FreshStreams DEF LogTyped, LogTypeOK
<1>12. CASE Reconnect
  <2>1. /\ logs' \in Logs /\ logs'.entries = logs.entries /\ logs'.call = logs.call /\ logs'.history = logs.history
        /\ logs'.ran = logs.ran /\ logs'.timers = 0 /\ logs.ran
    <3>1. logs.timers - 1 = 0 /\ logs' = [logs EXCEPT !.timers = @ - 1] /\ logs.ran
      BY <1>12, <1>f, <1>w DEF Reconnect
    <3>2. logs' = [logs EXCEPT !.timers = 0]
      BY <3>1
    <3>3. 0 \in 0..1
      OBVIOUS
    <3> QED
      BY <1>t, <3>1, <3>2, <3>3 DEF Logs
  <2>2. stream' = OpeningStream /\ UNCHANGED <<hub, pushed, upsets>>
    BY <1>12 DEF Reconnect
  <2> QED
    BY <1>0, <1>f, <1>t, <1>w, <2>1, <2>2, FreshStreams DEF LogTyped, LogTypeOK
<1>13. CASE ClearLogs
  <2>1. /\ logs' \in Logs /\ logs'.entries = logs.entries /\ logs'.call = logs.call /\ logs'.history = logs.history
        /\ logs'.ran = logs.ran /\ logs'.timers = logs.timers
    BY <1>13, <1>t DEF ClearLogs, Logs
  <2>2. upsets' \in 0..MaxUpsets /\ UNCHANGED <<hub, pushed, stream>>
    BY <1>13, <1>0, <1>t DEF ClearLogs
  <2> QED
    BY <1>f, <1>t, <1>w, <2>1, <2>2 DEF LogTyped, LogTypeOK
<1>14. CASE ServeClear
  <2>1. /\ logs' \in Logs /\ logs'.entries = logs.entries /\ logs'.call = logs.call /\ logs'.history = logs.history
        /\ logs'.ran = logs.ran /\ logs'.timers = logs.timers
    BY <1>14, <1>t DEF ServeClear, Logs
  <2>2. hub' = <<>> /\ UNCHANGED <<pushed, stream, upsets>>
    BY <1>14 DEF ServeClear
  <2> QED
    BY <1>0, <1>f, <1>t, <1>w, <2>1, <2>2 DEF LogTyped, LogTypeOK
<1>15. CASE AnswerClear
  <2>1. /\ logs' \in Logs /\ logs'.entries = <<>> /\ logs'.call = logs.call /\ logs'.history = logs.history
        /\ logs'.ran = logs.ran /\ logs'.timers = logs.timers
    BY <1>15, <1>f, <1>t DEF AnswerClear, Logs
  <2>2. /\ stream' \in Stream /\ stream'.at = stream.at /\ stream'.channel = stream.channel
        /\ stream'.wire = stream.wire
    BY <1>15, <1>t DEF AnswerClear, Stream
  <2>3. UNCHANGED <<hub, pushed, upsets>>
    BY <1>15 DEF AnswerClear
  <2> QED
    BY <1>0, <1>f, <1>t, <1>w, <2>1, <2>2, <2>3 DEF LogTyped, LogTypeOK
<1>16. CASE FailClear
  BY <1>16, <1>t, <1>w DEF FailClear, LogTyped, LogTypeOK, Logs
<1>17. CASE LeaveLogs
  <2>1. /\ logs' \in Logs /\ logs'.entries = logs.entries /\ logs'.call = logs.call /\ logs'.history = logs.history
        /\ logs'.ran = logs.ran /\ logs'.timers = logs.timers
    BY <1>17, <1>t DEF LeaveLogs, Logs
  <2>2. stream' = ClosedStream /\ UNCHANGED <<hub, pushed, upsets>>
    BY <1>17 DEF LeaveLogs
  <2> QED
    BY <1>0, <1>f, <1>t, <1>w, <2>1, <2>2, FreshStreams DEF LogTyped, LogTypeOK
<1>18. CASE UNCHANGED logVars
  BY <1>18, <1>t, <1>w DEF logVars, LogTyped, LogTypeOK
<1> QED
  BY <1>1, <1>2, <1>3, <1>4, <1>5, <1>6, <1>7, <1>8, <1>9, <1>10, <1>11, <1>12,
     <1>13, <1>14, <1>15, <1>16, <1>17, <1>18 DEF LogNext

\* The last part of a list is its end.
LEMMA EndsItself ==
    ASSUME NEW S, NEW a \in Seq(S), NEW s \in Seq(S)
    PROVE  EndsWith(a \o s, s)
<1> DEFINE all == a \o s
<1>1. /\ Len(all) = Len(a) + Len(s)
      /\ \A i \in 1..(Len(a) + Len(s)) : all[i] = IF i <= Len(a) THEN a[i] ELSE s[i - Len(a)]
  BY ConcatProperties, Zenon
<1>2. Len(a) \in Nat /\ Len(s) \in Nat
  BY LenProperties
<1> HIDE DEF all
<1>3. ASSUME NEW d \in 0..(Len(s) - 1) PROVE s[Len(s) - d] = all[Len(all) - d]
  <2>1. /\ Len(all) - d \in 1..(Len(a) + Len(s)) /\ ~(Len(all) - d <= Len(a))
        /\ (Len(all) - d) - Len(a) = Len(s) - d
    BY <1>1, <1>2
  <2> QED
    BY <1>1, <2>1
<1>4. EndsWith(all, s)
  BY <1>1, <1>2, <1>3 DEF EndsWith
<1> QED
  BY <1>4 DEF all

\* Every list ends with the entries of an empty hub.
LEMMA EndsEmpty ==
    ASSUME NEW S, NEW L \in Seq(S), NEW n \in Nat
    PROVE  EndsWith(L, Recent(<<>>, n))
<1>1. Len(<<>>) = 0 /\ Len(L) \in Nat
  BY EmptySeq, LenProperties
<1>2. Recent(<<>>, n) = <<>>
  BY <1>1 DEF Recent
<1> DEFINE none == <<>>
<1>3. Len(none) = 0
  BY <1>1
<1> HIDE DEF none
<1>4. EndsWith(L, none)
  BY <1>1, <1>3 DEF EndsWith
<1> QED
  BY <1>2, <1>4 DEF none

\* All that was read is a list of entries.
LEMMA ReadTyped == LogTyped => AllRead \in Seq(1..MaxLog)
<1> SUFFICES ASSUME LogTyped PROVE AllRead \in Seq(1..MaxLog)
  OBVIOUS
<1>1. /\ logs.entries \in Seq(1..MaxLog) /\ logs.pending \in Seq(1..MaxLog)
      /\ stream.channel \in Seq(1..MaxLog) /\ stream.wire \in Seq(1..MaxLog)
  BY DEF LogTyped, LogTypeOK, Logs, Stream
<1> DEFINE a == logs.entries \o logs.pending
           b == a \o stream.wire
<1>2. a \in Seq(1..MaxLog)
  BY <1>1, ConcatProperties
<1> HIDE DEF a
<1>3. b \in Seq(1..MaxLog)
  BY <1>1, <1>2, ConcatProperties
<1> HIDE DEF b
<1>4. b \o stream.channel \in Seq(1..MaxLog)
  BY <1>1, <1>3, ConcatProperties
<1> QED
  BY <1>4 DEF AllRead, a, b

\* A new element at the end of the last part.
LEMMA AppendMoves ==
    ASSUME NEW S, NEW a \in Seq(S), NEW c \in Seq(S), NEW e \in S
    PROVE  a \o Append(c, e) = Append(a \o c, e)
<1> DEFINE one == <<e>>
           all == a \o c
<1>1. one \in Seq(S)
  OBVIOUS
<1>2. Append(c, e) = c \o one
  BY AppendIsConcat
<1>3. all \in Seq(S)
  BY ConcatProperties
<1>4. all \o one = a \o (c \o one)
  BY <1>1, ConcatAssociative
<1> HIDE DEF all
<1>5. Append(all, e) = all \o one
  BY <1>3, AppendIsConcat
<1>6. a \o Append(c, e) = Append(all, e)
  BY <1>2, <1>4, <1>5, Zenon
<1> QED
  BY <1>6 DEF all

\* What was read ends with the newest entries of the hub, whatever is pushed,
\* replayed, written, read or cleared.
LEMMA TailKept == LogTyped /\ TailHeard /\ [LogNext]_logVars => TailHeard'
<1> SUFFICES ASSUME LogTyped, TailHeard, [LogNext]_logVars,
                    stream'.at \in {"replayed", "subscribed"}, ~stream'.gap
             PROVE  EndsWith(AllRead', Recent(hub', ReplaySize))
  BY DEF TailHeard
<1>0. /\ MaxLog \in Nat /\ HubSize \in Nat /\ ReplaySize \in Nat \ {0} /\ MaxEntries \in Nat
      /\ ReplaySize <= MaxEntries
  BY LogAssumption
<1>t. /\ hub \in Seq(1..MaxLog) /\ pushed \in 0..MaxLog /\ logs \in Logs /\ stream \in Stream
  BY DEF LogTyped, LogTypeOK
<1>f. /\ logs.entries \in Seq(1..MaxLog) /\ logs.pending \in Seq(1..MaxLog)
      /\ stream.channel \in Seq(1..MaxLog) /\ stream.wire \in Seq(1..MaxLog)
  BY <1>t DEF Logs, Stream
<1>r. AllRead \in Seq(1..MaxLog)
  BY ReadTyped
<1>c. stream.at # "subscribed" => stream.channel = <<>>
  BY DEF LogTyped
<1>e. /\ ClosedStream.at = "closed" /\ OpeningStream.at = "opening"
  BY FreshStreams
<1>h. stream.at \in {"replayed", "subscribed"} /\ ~stream.gap
      => EndsWith(AllRead, Recent(hub, ReplaySize))
  BY DEF TailHeard
<1>u. ASSUME UNCHANGED <<hub, logs>> \/ (UNCHANGED hub /\ logs'.entries = logs.entries /\ logs'.pending = logs.pending),
             UNCHANGED stream
      PROVE  EndsWith(AllRead', Recent(hub', ReplaySize))
  BY <1>h, <1>u DEF AllRead
<1>1. CASE PushEntry
  <2> DEFINE n == pushed + 1
  <2>1. n \in 1..MaxLog
    BY <1>1, <1>0, <1>t DEF PushEntry
  <2>2. hub' = Recent(Append(hub, n), HubSize) /\ UNCHANGED <<logs, upsets>>
    BY <1>1 DEF PushEntry
  <2>s. stream' = CASE stream.at = "subscribed" /\ Len(stream.channel) < ChannelSize ->
                        [stream EXCEPT !.channel = Append(@, n)]
                   [] stream.at = "subscribed" /\ Len(stream.channel) = ChannelSize ->
                        [stream EXCEPT !.gap = TRUE]
                   [] stream.at = "replayed" -> [stream EXCEPT !.gap = TRUE]
                   [] OTHER -> stream
    BY <1>1 DEF PushEntry
  <2> HIDE DEF n
  <2>l. Len(stream.channel) \in Nat /\ Len(stream.channel) <= ChannelSize /\ ChannelSize \in Nat
    BY <1>f, LenProperties, LogAssumption DEF LogTyped, LogTypeOK
  <2>3. stream.at = "subscribed" /\ Len(stream.channel) < ChannelSize
    <3>1. CASE stream.at = "subscribed" /\ Len(stream.channel) = ChannelSize
      BY <1>t, <2>l, <2>s, <3>1 DEF Stream
    <3>2. CASE stream.at = "replayed"
      BY <1>t, <2>s, <3>2 DEF Stream
    <3>3. CASE stream.at \notin {"subscribed", "replayed"}
      BY <2>s, <3>3
    <3> QED
      BY <2>l, <3>1, <3>2, <3>3
  <2>4. stream' = [stream EXCEPT !.channel = Append(stream.channel, n)]
    BY <2>s, <2>3
  <2>5. /\ stream'.channel = Append(stream.channel, n) /\ stream'.wire = stream.wire
        /\ stream'.gap = stream.gap
    BY <1>t, <2>4 DEF Stream
  <2> DEFINE x == (logs.entries \o logs.pending) \o stream.wire
  <2>6. x \in Seq(1..MaxLog)
    <3>1. logs.entries \o logs.pending \in Seq(1..MaxLog)
      BY <1>f, ConcatProperties
    <3> QED
      BY <1>f, <3>1, ConcatProperties
  <2>7. AllRead' = x \o Append(stream.channel, n) /\ AllRead = x \o stream.channel
    BY <2>2, <2>5 DEF AllRead
  <2> HIDE DEF x
  <2>8. x \o Append(stream.channel, n) = Append(x \o stream.channel, n)
    BY <1>f, <2>1, <2>6, AppendMoves
  <2>9. AllRead' = Append(AllRead, n)
    BY <2>7, <2>8
  <2>10. EndsWith(AllRead, Recent(hub, ReplaySize))
    BY <1>h, <2>3, <2>5
  <2>11. EndsWith(Append(AllRead, n), Recent(Recent(Append(hub, n), HubSize), ReplaySize))
    BY <1>0, <1>r, <1>t, <2>1, <2>10, EndsPushed
  <2> QED
    BY <2>2, <2>9, <2>11
<1>2. CASE OpenLogs
  BY <1>2, <1>t, <1>u DEF OpenLogs, Logs
<1>3. CASE ServeHistory
  BY <1>3, <1>t, <1>u DEF ServeHistory, Logs
<1>4. CASE AnswerHistory \/ Reconnect
  BY <1>4, <1>e DEF AnswerHistory, Reconnect
<1>5. CASE FailHistory
  BY <1>5, <1>t, <1>u DEF FailHistory, Logs
<1>6. CASE Replay
  <2> DEFINE a == logs.entries \o logs.pending
             s == Recent(hub, ReplaySize)
  <2>1. s \in Seq(1..MaxLog)
    BY <1>0, <1>t, RecentOK
  <2>2. stream' = [stream EXCEPT !.at = "replayed", !.wire = s] /\ UNCHANGED <<hub, logs>>
    BY <1>6 DEF Replay
  <2>3. stream.channel = <<>>
    BY <1>6, <1>c DEF Replay
  <2>4. a \in Seq(1..MaxLog)
    BY <1>f, ConcatProperties
  <2>5. hub' = hub /\ AllRead' = (a \o stream'.wire) \o stream'.channel
    BY <2>2 DEF AllRead
  <2> HIDE DEF a, s
  <2>6. stream'.wire = s /\ stream'.channel = <<>>
    BY <1>t, <2>2, <2>3 DEF Stream
  <2>7. (a \o s) \o <<>> = a \o s
    BY <2>1, <2>4, ConcatProperties, ConcatEmptySeq
  <2>8. EndsWith(a \o s, s)
    BY <2>1, <2>4, EndsItself
  <2>9. EndsWith(AllRead', s)
    BY <2>5, <2>6, <2>7, <2>8
  <2> QED
    BY <2>5, <2>9 DEF s
<1>7. CASE Subscribe
  <2>1. /\ stream.at = "replayed" /\ stream'.gap = stream.gap /\ stream'.wire = stream.wire
        /\ stream'.channel = stream.channel /\ UNCHANGED <<hub, logs>>
    BY <1>7, <1>t DEF Subscribe, Stream
  <2> QED
    BY <1>h, <2>1 DEF AllRead
<1>8. CASE WriteEntry
  <2> DEFINE a == logs.entries \o logs.pending
  <2>1. a \in Seq(1..MaxLog)
    BY <1>f, ConcatProperties
  <2>2. /\ stream'.channel = Tail(stream.channel) /\ stream'.at = stream.at
        /\ stream'.wire = Append(stream.wire, Head(stream.channel)) /\ stream'.gap = stream.gap
    BY <1>8, <1>t DEF WriteEntry, Stream
  <2>3. stream.channel # <<>> /\ UNCHANGED <<hub, logs>>
    BY <1>8 DEF WriteEntry
  <2>4. AllRead = (a \o stream.wire) \o stream.channel /\ AllRead' = (a \o stream'.wire) \o stream'.channel
    BY <2>3 DEF AllRead
  <2> HIDE DEF a
  <2>5. (a \o Append(stream.wire, Head(stream.channel))) \o Tail(stream.channel)
        = (a \o stream.wire) \o stream.channel
    <3> DEFINE w == stream.wire
               c == stream.channel
    <3>1. a \in Lists
      BY <2>1 DEF Lists
    <3>2. w \in Lists
      BY <1>f DEF Lists
    <3>3. c \in Lists /\ c # <<>>
      BY <1>f, <2>3 DEF Lists
    <3> HIDE DEF w, c
    <3>4. (a \o Append(w, Head(c))) \o Tail(c) = (a \o w) \o c
      BY <3>1, <3>2, <3>3, HeadMoves
    <3> QED
      BY <3>4 DEF w, c
  <2>6. AllRead' = AllRead
    BY <2>2, <2>4, <2>5
  <2> QED
    BY <1>h, <2>2, <2>3, <2>6
<1>9. CASE ReadEntry
  <2>1. /\ logs'.entries = logs.entries /\ logs'.pending = Append(logs.pending, Head(stream.wire))
    BY <1>9, <1>t DEF ReadEntry, Logs
  <2>2. /\ stream'.wire = Tail(stream.wire) /\ stream'.at = stream.at
        /\ stream'.channel = stream.channel /\ stream'.gap = stream.gap
    BY <1>9, <1>t DEF ReadEntry, Stream
  <2>3. stream.wire # <<>> /\ UNCHANGED hub
    BY <1>9 DEF ReadEntry
  <2>4. (logs.entries \o Append(logs.pending, Head(stream.wire))) \o Tail(stream.wire)
        = (logs.entries \o logs.pending) \o stream.wire
    <3> DEFINE e == logs.entries
               p == logs.pending
               w == stream.wire
    <3>1. e \in Lists
      BY <1>f DEF Lists
    <3>2. p \in Lists
      BY <1>f DEF Lists
    <3>3. w \in Lists /\ w # <<>>
      BY <1>f, <2>3 DEF Lists
    <3> HIDE DEF e, p, w
    <3>4. (e \o Append(p, Head(w))) \o Tail(w) = (e \o p) \o w
      BY <3>1, <3>2, <3>3, HeadMoves
    <3> QED
      BY <3>4 DEF e, p, w
  <2>5. AllRead' = ((logs'.entries \o logs'.pending) \o stream'.wire) \o stream'.channel
    BY DEF AllRead
  <2>6. AllRead' = AllRead
    BY <2>1, <2>2, <2>4, <2>5 DEF AllRead
  <2> QED
    BY <1>h, <2>2, <2>3, <2>6
<1>10. CASE Flush
  <2> DEFINE x == logs.entries \o logs.pending
             y == stream.wire \o stream.channel
             kept == Recent(x, MaxEntries)
             s == Recent(hub, ReplaySize)
  <2>1. x \in Seq(1..MaxLog)
    BY <1>f, ConcatProperties
  <2>2. y \in Seq(1..MaxLog)
    BY <1>f, ConcatProperties
  <2>3. s \in Seq(1..MaxLog) /\ Len(s) = IF Len(hub) <= ReplaySize THEN Len(hub) ELSE ReplaySize
    BY <1>0, <1>t, RecentOK
  <2>4. Len(s) <= MaxEntries
    BY <1>0, <1>t, <2>3, LenProperties
  <2>5. AllRead = (x \o stream.wire) \o stream.channel
    BY DEF AllRead
  <2>6. /\ logs'.entries = kept /\ logs'.pending = <<>> /\ UNCHANGED <<hub, stream>>
    BY <1>10, <1>t DEF Flush, Logs
  <2>7. AllRead' = ((kept \o <<>>) \o stream.wire) \o stream.channel
    BY <2>6 DEF AllRead
  <2>8. EndsWith(AllRead, s)
    BY <1>h, <2>6
  <2> HIDE DEF x, s
  <2>9. kept \in Seq(1..MaxLog)
    BY <1>0, <2>1, RecentOK
  <2>10. (x \o stream.wire) \o stream.channel = x \o y
    <3> DEFINE w == stream.wire
               c == stream.channel
    <3>1. x \in Lists
      BY <2>1 DEF Lists
    <3>2. w \in Lists
      BY <1>f DEF Lists
    <3>3. c \in Lists
      BY <1>f DEF Lists
    <3> HIDE DEF w, c
    <3>4. (x \o w) \o c = x \o (w \o c)
      BY <3>1, <3>2, <3>3, ListsRegroup
    <3> QED
      BY <3>4 DEF w, c
  <2>11. EndsWith(x \o y, s)
    BY <2>5, <2>8, <2>10
  <2> HIDE DEF y
  <2>12. EndsWith(kept \o y, s)
    BY <1>0, <2>1, <2>2, <2>3, <2>4, <2>11, EndsTrim
  <2> HIDE DEF kept
  <2>13. kept \o <<>> = kept
    BY <2>9, ConcatEmptySeq
  <2>14. (kept \o stream.wire) \o stream.channel = kept \o y
    <3> DEFINE w == stream.wire
               c == stream.channel
    <3>1. kept \in Lists
      BY <2>9 DEF Lists
    <3>2. w \in Lists
      BY <1>f DEF Lists
    <3>3. c \in Lists
      BY <1>f DEF Lists
    <3> HIDE DEF w, c
    <3>4. (kept \o w) \o c = kept \o (w \o c)
      BY <3>1, <3>2, <3>3, ListsRegroup
    <3> QED
      BY <3>4 DEF w, c, y
  <2>15. EndsWith(AllRead', s)
    BY <2>7, <2>12, <2>13, <2>14
  <2> QED
    BY <2>6, <2>15 DEF s
<1>11. CASE BreakStream \/ LeaveLogs
  BY <1>11, <1>e DEF BreakStream, LeaveLogs
<1>12. CASE ClearLogs
  BY <1>12, <1>t, <1>u DEF ClearLogs, Logs
<1>13. CASE ServeClear
  <2>1. /\ hub' = <<>> /\ UNCHANGED stream /\ logs'.entries = logs.entries /\ logs'.pending = logs.pending
    BY <1>13, <1>t DEF ServeClear, Logs
  <2>2. AllRead' = AllRead
    BY <2>1 DEF AllRead
  <2>3. EndsWith(AllRead, Recent(<<>>, ReplaySize))
    BY <1>0, <1>r, EndsEmpty
  <2> QED
    BY <2>1, <2>2, <2>3
<1>14. CASE AnswerClear
  <2>1. /\ logs'.entries = <<>> /\ logs'.pending = <<>> /\ hub' = hub
    BY <1>14, <1>t DEF AnswerClear, Logs
  <2>2. /\ stream'.gap = (stream.gap \/ hub # <<>>) /\ stream'.wire = stream.wire
        /\ stream'.channel = stream.channel
    BY <1>14, <1>t DEF AnswerClear, Stream
  <2>3. hub' = <<>>
    BY <2>1, <2>2
  <2> DEFINE x == ((<<>> \o <<>>) \o stream.wire) \o stream.channel
  <2>4. x \in Seq(1..MaxLog)
    <3>1. <<>> \in Seq(1..MaxLog) /\ <<>> \o <<>> = <<>>
      BY EmptySeq, ConcatEmptySeq
    <3>2. <<>> \o stream.wire = stream.wire
      BY <1>f, ConcatEmptySeq
    <3>3. stream.wire \o stream.channel \in Seq(1..MaxLog)
      BY <1>f, ConcatProperties
    <3> QED
      BY <3>1, <3>2, <3>3
  <2>5. AllRead' = x
    BY <2>1, <2>2 DEF AllRead
  <2> HIDE DEF x
  <2>6. EndsWith(x, Recent(<<>>, ReplaySize))
    BY <1>0, <2>4, EndsEmpty
  <2> QED
    BY <2>3, <2>5, <2>6
<1>15. CASE FailClear
  BY <1>15, <1>t, <1>u DEF FailClear, Logs
<1>16. CASE UNCHANGED logVars
  BY <1>16, <1>u DEF logVars
<1> QED
  BY <1>1, <1>2, <1>3, <1>4, <1>5, <1>6, <1>7, <1>8, <1>9, <1>10, <1>11, <1>12,
     <1>13, <1>14, <1>15, <1>16 DEF LogNext

\* The inductive invariant of the page of the logs.
LEMMA LogHolds == LogSpec => [](LogTyped /\ TailHeard)
<1>1. LogInit => LogTyped /\ TailHeard
  BY LogStarts
<1>2. LogTyped /\ TailHeard /\ [LogNext]_logVars => (LogTyped /\ TailHeard)'
  BY LogTypesKept, TailKept
<1> QED
  BY <1>1, <1>2, PTL DEF LogSpec

\* The page of the logs, the hub and the stream are what their types say: no
\* list is longer than its bound.
THEOREM LogTypeCorrect == LogSpec => []LogTypeOK
<1>1. LogTyped => LogTypeOK
  BY DEF LogTyped
<1> QED
  BY <1>1, LogHolds, PTL

\* LogsView.vue and appLogHub: when all has been read, the list ends with the
\* newest entries of the hub; what was pushed while the stream was broken or
\* not yet open is not missing.
THEOREM TailStaysShown == LogSpec => []TailIsShown
<1>1. ASSUME LogTyped, TailHeard PROVE TailIsShown
  <2> SUFFICES ASSUME stream.at = "subscribed", ~stream.gap,
                      stream.channel = <<>>, stream.wire = <<>>, logs.pending = <<>>
               PROVE  Recent(logs.entries, Len(Recent(hub, ReplaySize))) = Recent(hub, ReplaySize)
    BY DEF TailIsShown
  <2> DEFINE s == Recent(hub, ReplaySize)
             list == logs.entries
  <2>1. list \in Seq(1..MaxLog) /\ hub \in Seq(1..MaxLog) /\ ReplaySize \in Nat
    BY <1>1, LogAssumption DEF LogTyped, LogTypeOK, Logs
  <2>2. s \in Seq(1..MaxLog)
    BY <2>1, RecentOK
  <2>3. EndsWith(AllRead, s)
    BY <1>1 DEF TailHeard
  <2>4. AllRead = ((list \o <<>>) \o <<>>) \o <<>>
    BY DEF AllRead
  <2> HIDE DEF s, list
  <2>5. list \o <<>> = list
    BY <2>1, ConcatEmptySeq
  <2>6. EndsWith(list, s)
    BY <2>3, <2>4, <2>5
  <2>7. Recent(list, Len(s)) = s
    BY <2>1, <2>2, <2>6, EndIsRecent
  <2> QED
    BY <2>7 DEF s, list
<1> QED
  BY <1>1, LogHolds, PTL

-----------------------------------------------------------------------------
(* OpsPanel: what an action of a plan does, and what takes it back.        *)

\* An action of a plan leads from one state of the engine to another.
LEMMA ActedOK ==
    ASSUME NEW e \in Engine, NEW a \in OpsAction
    PROVE  Acted(e, a) \in Engine
BY DEF Acted, Engine, OpsAction, Override, NoOverride

\* To hold an override twice is to hold it once.
LEMMA HoldsOK ==
    ASSUME NEW o \in Override
    PROVE  Holds(o) \in Override /\ Holds(Holds(o)) = Holds(o)
BY DEF Holds, Override

\* The snapshot before an action is one.
LEMMA SnapOK ==
    ASSUME NEW e \in Engine, NEW a \in OpsAction
    PROVE  SnapOf(e, a) \in SnapItem
<1>1. e.override[a.hid] \in Override
  BY DEF Engine, OpsAction
<1> QED
  BY <1>1, HoldsOK DEF SnapOf, SnapItem

\* To undo an action leads to a state of the engine.
LEMMA UndoneOK ==
    ASSUME NEW e \in Engine, NEW item \in SnapItem
    PROVE  Undone(e, item) \in Engine
<1>1. item.act.do \in {"pause", "resume", "enable retry"} /\ item.act.hid \in OpsChannels
      /\ item.before \in Override
  BY DEF SnapItem, OpsAction
<1> QED
  BY <1>1 DEF Undone, Engine

\* To undo an action other than to resume a channel, in an engine of which holds
\* what held after the action, takes back what holds to where it was before.
LEMMA UndoneHolds ==
    ASSUME NEW e \in Engine, NEW x \in Engine, NEW a \in OpsAction, a.do # "resume",
           Holding(x) = Holding(Acted(e, a))
    PROVE  Holding(Undone(x, SnapOf(e, a))) = Holding(e)
<1> DEFINE d == Acted(e, a)
           u == Undone(x, SnapOf(e, a))
<1>1. d \in Engine /\ u \in Engine
  BY ActedOK, UndoneOK, SnapOK
<1>2. x.paused = d.paused /\ \A h \in OpsChannels : Holds(x.override[h]) = Holds(d.override[h])
  <2>1. Holding(x).paused = Holding(d).paused /\ Holding(x).cfg = Holding(d).cfg
    OBVIOUS
  <2>2. \A h \in OpsChannels : Holding(x).cfg[h] = Holding(d).cfg[h]
    BY <2>1
  <2> HIDE DEF d
  <2> QED
    BY <2>1, <2>2 DEF Holding
<1>3. a.hid \in OpsChannels /\ a.do \in {"pause", "enable retry"}
  BY DEF OpsAction
<1>4. /\ SnapOf(e, a).act = a /\ SnapOf(e, a).pausedBefore = (a.hid \in e.paused)
      /\ SnapOf(e, a).before = Holds(e.override[a.hid])
  BY DEF SnapOf
<1>5. CASE a.do = "pause"
  <2>1. d.paused = e.paused \cup {a.hid} /\ d.override = e.override
    BY <1>5 DEF Acted, Engine
  <2>2. /\ u.paused = IF a.hid \in e.paused THEN x.paused \cup {a.hid} ELSE x.paused \ {a.hid}
        /\ u.override = x.override
    BY <1>4, <1>5 DEF Undone, Engine
  <2>3. u.paused = e.paused
    BY <1>2, <2>1, <2>2
  <2>4. \A h \in OpsChannels : Holds(u.override[h]) = Holds(e.override[h])
    BY <1>2, <2>1, <2>2
  <2> HIDE DEF u, d
  <2>5. Holding(u) = Holding(e)
    BY <2>3, <2>4 DEF Holding
  <2> QED
    BY <2>5 DEF u
<1>6. CASE a.do = "enable retry"
  <2>1. /\ d.paused = e.paused
        /\ \A h \in OpsChannels \ {a.hid} : d.override[h] = e.override[h]
    BY <1>3, <1>6 DEF Acted, Engine
  <2>2. /\ u.paused = x.paused
        /\ \A h \in OpsChannels \ {a.hid} : u.override[h] = x.override[h]
        /\ u.override[a.hid] = Holds(e.override[a.hid])
    BY <1>3, <1>4, <1>6 DEF Undone, Engine
  <2>3. u.paused = e.paused
    BY <1>2, <2>1, <2>2
  <2>4. Holds(u.override[a.hid]) = Holds(e.override[a.hid])
    BY <1>3, <2>2, HoldsOK DEF Engine
  <2>5. \A h \in OpsChannels : Holds(u.override[h]) = Holds(e.override[h])
    BY <1>2, <2>1, <2>2, <2>4
  <2> HIDE DEF u, d
  <2>6. Holding(u) = Holding(e)
    BY <2>3, <2>5 DEF Holding
  <2> QED
    BY <2>6 DEF u
<1> QED
  BY <1>3, <1>5, <1>6

\* A plan, what it leaves and the snapshots that it takes.
LEMMA PlanSteps ==
    ASSUME NEW e \in Engine, NEW plan \in Plans
    PROVE  \E a \in OpsAction :
              \/ /\ Len(plan) = 1 /\ Len(Executed(e, plan).snap) = 1
                 /\ DOMAIN Executed(e, plan).snap = 1..1
                 /\ Executed(e, plan).snap[1] = SnapOf(e, a)
                 /\ Executed(e, plan).left = Acted(e, a)
              \/ \E b \in OpsAction :
                 /\ Len(plan) = 2 /\ Len(Executed(e, plan).snap) = 2
                 /\ DOMAIN Executed(e, plan).snap = 1..2
                 /\ Executed(e, plan).snap[1] = SnapOf(e, a)
                 /\ Executed(e, plan).snap[2] = SnapOf(Acted(e, a), b)
                 /\ Executed(e, plan).left = Acted(Acted(e, a), b)
<1> DEFINE s == Executed(e, plan).snap
<1>0. s = [n \in 1..Len(plan) |-> SnapOf(Halfway(e, plan, n), plan[n])]
      /\ Executed(e, plan).left = Acted(Halfway(e, plan, Len(plan)), plan[Len(plan)])
  BY DEF Executed
<1> HIDE DEF s
<1>1. ASSUME NEW a \in OpsAction, plan = <<a>>
      PROVE  /\ Len(plan) = 1 /\ Len(s) = 1 /\ DOMAIN s = 1..1
             /\ s[1] = SnapOf(e, a) /\ Executed(e, plan).left = Acted(e, a)
  <2>1. Len(plan) = 1 /\ plan[1] = a
    BY <1>1
  <2>2. s = [n \in 1..1 |-> SnapOf(Halfway(e, plan, n), plan[n])]
    BY <1>0, <2>1
  <2>3. Halfway(e, plan, 1) = e
    BY DEF Halfway
  <2>4. DOMAIN s = 1..1 /\ s[1] = SnapOf(e, a) /\ s = [n \in 1..1 |-> s[n]]
    BY <2>1, <2>2, <2>3
  <2>5. Len(s) = 1
    BY <2>4
  <2> QED
    BY <1>0, <2>1, <2>3, <2>4, <2>5
<1>2. ASSUME NEW a \in OpsAction, NEW b \in OpsAction, plan = <<a, b>>
      PROVE  /\ Len(plan) = 2 /\ Len(s) = 2 /\ DOMAIN s = 1..2
             /\ s[1] = SnapOf(e, a) /\ s[2] = SnapOf(Acted(e, a), b)
             /\ Executed(e, plan).left = Acted(Acted(e, a), b)
  <2>1. Len(plan) = 2 /\ plan[1] = a /\ plan[2] = b
    BY <1>2
  <2>2. s = [n \in 1..2 |-> SnapOf(Halfway(e, plan, n), plan[n])]
    BY <1>0, <2>1
  <2>3. Halfway(e, plan, 1) = e /\ Halfway(e, plan, 2) = Acted(e, a)
    BY <2>1 DEF Halfway
  <2>4. /\ DOMAIN s = 1..2 /\ s[1] = SnapOf(e, a) /\ s[2] = SnapOf(Acted(e, a), b)
        /\ s = [n \in 1..2 |-> s[n]]
    BY <2>1, <2>2, <2>3
  <2>5. Len(s) = 2
    BY <2>4
  <2> QED
    BY <1>0, <2>1, <2>3, <2>4, <2>5
<1>3. CASE \E a \in OpsAction : plan = <<a>>
  BY <1>1, <1>3 DEF s
<1>4. CASE \E a, b \in OpsAction : plan = <<a, b>>
  BY <1>2, <1>4 DEF s
<1> QED
  BY <1>3, <1>4 DEF Plans

\* To roll back a plan without a resumption, from where it left the engine,
\* restores what held.
LEMMA PlanTakenBack ==
    ASSUME NEW e \in Engine, NEW plan \in Plans,
           \A k \in DOMAIN Executed(e, plan).snap : Executed(e, plan).snap[k].act.do # "resume"
    PROVE  Holding(RolledBack(Executed(e, plan).left, Executed(e, plan).snap)) = Holding(e)
<1> DEFINE s == Executed(e, plan).snap
           left == Executed(e, plan).left
<1>1. PICK a \in OpsAction :
              \/ /\ Len(s) = 1 /\ DOMAIN s = 1..1 /\ s[1] = SnapOf(e, a) /\ left = Acted(e, a)
              \/ \E b \in OpsAction :
                 /\ Len(s) = 2 /\ DOMAIN s = 1..2
                 /\ s[1] = SnapOf(e, a) /\ s[2] = SnapOf(Acted(e, a), b)
                 /\ left = Acted(Acted(e, a), b)
  BY PlanSteps, Zenon
<1>2. \A k \in DOMAIN s : s[k].act.do # "resume"
  OBVIOUS
<1> HIDE DEF s, left
<1>3. Acted(e, a) \in Engine
  BY ActedOK
<1>4. CASE Len(s) = 1 /\ DOMAIN s = 1..1 /\ s[1] = SnapOf(e, a) /\ left = Acted(e, a)
  <2>1. a.do # "resume"
    BY <1>2, <1>4 DEF SnapOf
  <2>2. RolledBack(left, s) = Undone(Acted(e, a), SnapOf(e, a))
    BY <1>4 DEF RolledBack
  <2>3. Holding(RolledBack(left, s)) = Holding(e)
    BY <1>3, <2>1, <2>2, UndoneHolds
  <2> QED
    BY <2>3 DEF s, left
<1>5. ASSUME NEW b \in OpsAction, Len(s) = 2, DOMAIN s = 1..2,
             s[1] = SnapOf(e, a), s[2] = SnapOf(Acted(e, a), b), left = Acted(Acted(e, a), b)
      PROVE  Holding(RolledBack(left, s)) = Holding(e)
  <2>1. a.do # "resume" /\ b.do # "resume"
    BY <1>2, <1>5 DEF SnapOf
  <2> DEFINE x == Undone(left, s[2])
  <2>2. RolledBack(left, s) = Undone(x, SnapOf(e, a))
    BY <1>5 DEF RolledBack
  <2>3. x \in Engine
    BY <1>3, <1>5, ActedOK, SnapOK, UndoneOK
  <2>4. Holding(x) = Holding(Acted(e, a))
    BY <1>3, <1>5, <2>1, ActedOK, UndoneHolds
  <2> HIDE DEF x
  <2> QED
    BY <2>1, <2>2, <2>3, <2>4, UndoneHolds
<1> QED
  BY <1>1, <1>4, <1>5 DEF s, left

-----------------------------------------------------------------------------
(* OpsPanel: types.                                                        *)

EngineOK == paused \subseteq OpsChannels /\ override \in [OpsChannels -> Override]
RecordsOK == records \in Seq(Record) /\ Len(records) <= MaxRecords /\ watched \subseteq 1..Len(records)
PanelOK == panel \in Panel /\ panel.rows <= Len(records) /\ panel.row <= Len(records)

\* A call that knows of the first n records only.
KnowsOf(c, n) == /\ c \in OpsCall /\ c.id <= n /\ c.rows <= n
                 /\ c.op = "rollback" => c.id # 0
PostsOK == /\ posts \in [OpsSlot -> OpsCall \cup {NoPost, PostOver}]
           /\ \A i \in OpsSlot : Posted(i) => KnowsOf(posts[i], Len(records))

\* The page shows, and its calls name, only records that are there.
OpsTyped == /\ EngineOK /\ RecordsOK /\ PanelOK /\ PostsOK
            /\ opsOn \in BOOLEAN /\ obusy \subseteq OpsFlags

\* The snapshots of a record are those of a plan that led from where the
\* engine was to where the record says that it was left.
RecordFits(r) == \E plan \in Plans : /\ r.snap = Executed(r.was, plan).snap
                                     /\ r.left = Executed(r.was, plan).left
RecordsFit == \A n \in 1..Len(records) : RecordFits(records[n])

\* A slot without a call has no operation.
LEMMA NotPosted == NoPost.op \notin OpsOps /\ PostOver.op \notin OpsOps
BY DEF NoPost, PostOver, OpsOps, Loads

\* The audit records are numbered from 1 and bounded.
LEMMA RecordsLen ==
    ASSUME RecordsOK
    PROVE  /\ Len(records) \in Nat /\ Len(records) <= MaxRecords /\ MaxRecords \in Nat
           /\ DOMAIN records = 1..Len(records)
           /\ \A n \in 1..Len(records) : records[n] \in Record
BY LenProperties, ElementOfSeq, OpsAssumption DEF RecordsOK

\* The state of the engine is one.
LEMMA NowOK == EngineOK => Now \in Engine
BY DEF EngineOK, Now, Engine

\* Engage puts the engine where it says.
LEMMA EngagedOK ==
    ASSUME NEW e \in Engine, Engage(e)
    PROVE  EngineOK' /\ Now' = e
<1>1. e = [paused |-> e.paused, override |-> e.override]
  BY DEF Engine
<1> QED
  BY <1>1 DEF Engage, EngineOK, Engine, Now

\* What a plan leaves behind is a record.
LEMMA RecordMade ==
    ASSUME NEW s \in UNION {[1..n -> SnapItem] : n \in 1..2}, NEW w \in Engine, NEW l \in Engine
    PROVE  [snap |-> s, status |-> "executed", was |-> w, left |-> l] \in Record
BY DEF Record

\* What an executed plan puts on record.
LEMMA ExecutedOK ==
    ASSUME NEW e \in Engine, NEW plan \in Plans
    PROVE  /\ Executed(e, plan) \in Record /\ Executed(e, plan).left \in Engine
           /\ Executed(e, plan).status = "executed"
           /\ RecordFits(Executed(e, plan))
<1> DEFINE r == Executed(e, plan)
<1>1. /\ r = [snap |-> r.snap, status |-> "executed", was |-> e, left |-> r.left]
      /\ r.was = e
  BY DEF Executed
<1>2. PICK a \in OpsAction :
              \/ /\ Len(plan) = 1 /\ Len(r.snap) = 1 /\ DOMAIN r.snap = 1..1
                 /\ r.snap[1] = SnapOf(e, a) /\ r.left = Acted(e, a)
              \/ \E b \in OpsAction :
                 /\ Len(plan) = 2 /\ Len(r.snap) = 2 /\ DOMAIN r.snap = 1..2
                 /\ r.snap[1] = SnapOf(e, a) /\ r.snap[2] = SnapOf(Acted(e, a), b)
                 /\ r.left = Acted(Acted(e, a), b)
  BY PlanSteps, Zenon
<1>s. r.snap = [n \in 1..Len(plan) |-> r.snap[n]]
  <2>1. r.snap = [n \in 1..Len(plan) |-> SnapOf(Halfway(e, plan, n), plan[n])]
    BY DEF Executed
  <2> HIDE DEF r
  <2> QED
    BY <2>1
<1> HIDE DEF r
<1>3. Acted(e, a) \in Engine /\ SnapOf(e, a) \in SnapItem
  BY ActedOK, SnapOK
<1>4. r.snap \in UNION {[1..n -> SnapItem] : n \in 1..2} /\ r.left \in Engine
  <2>1. CASE Len(plan) = 1 /\ DOMAIN r.snap = 1..1 /\ r.snap[1] = SnapOf(e, a) /\ r.left = Acted(e, a)
    <3>1. r.snap \in [1..1 -> SnapItem]
      BY <1>s, <1>3, <2>1
    <3> QED
      BY <1>3, <2>1, <3>1
  <2>2. ASSUME NEW b \in OpsAction, Len(plan) = 2, DOMAIN r.snap = 1..2,
               r.snap[1] = SnapOf(e, a), r.snap[2] = SnapOf(Acted(e, a), b),
               r.left = Acted(Acted(e, a), b)
        PROVE  r.snap \in UNION {[1..n -> SnapItem] : n \in 1..2} /\ r.left \in Engine
    <3>1. SnapOf(Acted(e, a), b) \in SnapItem /\ Acted(Acted(e, a), b) \in Engine
      BY <1>3, ActedOK, SnapOK
    <3>2. r.snap \in [1..2 -> SnapItem]
      BY <1>s, <1>3, <2>2, <3>1
    <3> QED
      BY <2>2, <3>1, <3>2
  <2> QED
    BY <1>2, <2>1, <2>2
<1>5. r \in Record /\ r.status = "executed"
  <2>1. [snap |-> r.snap, status |-> "executed", was |-> e, left |-> r.left] \in Record
    BY <1>4, RecordMade
  <2> QED
    BY <1>1, <2>1
<1>6. RecordFits(r)
  BY <1>1 DEF RecordFits, r
<1> QED
  BY <1>4, <1>5, <1>6 DEF r

\* A rollback leads to a state of the engine.
LEMMA RolledBackOK ==
    ASSUME NEW e \in Engine, NEW r \in Record
    PROVE  RolledBack(e, r.snap) \in Engine
<1>1. PICK n \in 1..2 : r.snap \in [1..n -> SnapItem]
  BY DEF Record
<1>2. CASE n = 1
  <2>1. r.snap \in [1..1 -> SnapItem] /\ 1 \in 1..1
    BY <1>1, <1>2
  <2>2. Len(r.snap) = 1 /\ r.snap[1] \in SnapItem
    BY <2>1
  <2> QED
    BY <2>2, UndoneOK DEF RolledBack
<1>3. CASE n = 2
  <2>1. r.snap \in [1..2 -> SnapItem] /\ 1 \in 1..2 /\ 2 \in 1..2
    BY <1>1, <1>3
  <2>2. Len(r.snap) = 2 /\ r.snap[1] \in SnapItem /\ r.snap[2] \in SnapItem
    BY <2>1
  <2> QED
    BY <2>2, UndoneOK DEF RolledBack
<1> QED
  BY <1>2, <1>3

\* A plan is executed: one record more.
LEMMA ExecuteKeeps ==
    ASSUME EngineOK, RecordsOK, NEW plan \in Plans, Execute(plan)
    PROVE  /\ EngineOK' /\ RecordsOK' /\ Len(records') = Len(records) + 1
           /\ \A n \in 1..Len(records) : records'[n] = records[n]
           /\ records'[Len(records) + 1].status = "executed"
           /\ RecordFits(records'[Len(records) + 1])
<1> DEFINE r == Executed(Now, plan)
<1>1. r \in Record /\ r.left \in Engine /\ r.status = "executed" /\ RecordFits(r)
  BY NowOK, ExecutedOK
<1>2. /\ Len(records) < MaxRecords /\ Engage(r.left) /\ records' = Append(records, r)
      /\ watched' = watched \cup {Len(records) + 1}
  BY DEF Execute
<1> HIDE DEF r
<1>3. EngineOK'
  BY <1>1, <1>2, EngagedOK
<1>4. records \in Seq(Record)
  BY DEF RecordsOK
<1>5. /\ records' \in Seq(Record) /\ Len(records') = Len(records) + 1
      /\ \A n \in 1..Len(records) : records'[n] = records[n]
      /\ records'[Len(records) + 1] = r
  <2>1. records' = Append(records, r) /\ r \in Record
    BY <1>1, <1>2
  <2> QED
    BY <1>4, <2>1, SeqAdd, SMT
<1>6. Len(records) \in Nat /\ Len(records) + 1 <= MaxRecords
  BY <1>2, RecordsLen
<1>7. watched' \subseteq 1..Len(records')
  <2>1. watched \subseteq 1..Len(records) /\ watched' = watched \cup {Len(records) + 1}
    BY <1>2 DEF RecordsOK
  <2>2. 1..Len(records') = 1..(Len(records) + 1)
    BY <1>5
  <2>3. \A k \in Nat : 1..k \subseteq 1..(k + 1) /\ k + 1 \in 1..(k + 1)
    OBVIOUS
  <2> QED
    BY <1>6, <2>1, <2>2, <2>3
<1>8. RecordsOK'
  BY <1>5, <1>6, <1>7 DEF RecordsOK
<1> QED
  BY <1>1, <1>3, <1>5, <1>8

\* A record is rolled back: of the records only its status changes.
LEMMA RollbackKeeps ==
    ASSUME EngineOK, RecordsOK, NEW id \in 1..Len(records), Rollback(id), watched' \subseteq watched
    PROVE  /\ EngineOK' /\ RecordsOK' /\ Len(records') = Len(records)
           /\ Now' = RolledBack(Now, records[id].snap)
           /\ \A n \in 1..Len(records) \ {id} : records'[n] = records[n]
           /\ records'[id].snap = records[id].snap /\ records'[id].was = records[id].was
           /\ records'[id].left = records[id].left
<1> DEFINE e == RolledBack(Now, records[id].snap)
           r == [records[id] EXCEPT !.status = "rolled back"]
<1>1. e \in Engine
  BY NowOK, RecordsLen, RolledBackOK
<1>2. records[id] \in Record
  BY RecordsLen
<1>3. /\ r \in Record /\ r.snap = records[id].snap /\ r.was = records[id].was
      /\ r.left = records[id].left
  BY <1>2 DEF Record
<1>4. Engage(e) /\ records' = [records EXCEPT ![id] = r]
  BY DEF Rollback
<1> HIDE DEF e, r
<1>5. EngineOK' /\ Now' = e
  BY <1>1, <1>4, EngagedOK
<1>6. /\ records' \in Seq(Record) /\ Len(records') = Len(records)
      /\ \A m \in 1..Len(records) : records'[m] = IF m = id THEN r ELSE records[m]
  <2>1. records \in Seq(Record) /\ r \in Record /\ records' = [records EXCEPT ![id] = r]
    BY <1>3, <1>4 DEF RecordsOK
  <2> QED
    BY <2>1, SeqPut, SMT
<1>7. RecordsOK'
  BY <1>6 DEF RecordsOK
<1>8. Now' = RolledBack(Now, records[id].snap)
  BY <1>5 DEF e
<1> QED
  BY <1>3, <1>5, <1>6, <1>7, <1>8

\* One slot takes a call that knows of no more records than there are.
LEMMA PostsPut ==
    ASSUME PostsOK, RecordsOK, RecordsOK', Len(records) <= Len(records'),
           NEW i \in OpsSlot, NEW c, posts' = [posts EXCEPT ![i] = c],
           c \in {NoPost, PostOver} \/ KnowsOf(c, Len(records'))
    PROVE  PostsOK'
<1>1. /\ Len(records) \in Nat /\ Len(records') \in Nat
  BY LenProperties DEF RecordsOK
<1>2. c \in OpsCall \cup {NoPost, PostOver}
  BY DEF KnowsOf
<1>3. /\ posts' \in [OpsSlot -> OpsCall \cup {NoPost, PostOver}] /\ posts'[i] = c
      /\ \A j \in OpsSlot \ {i} : posts'[j] = posts[j]
  BY <1>2 DEF PostsOK
<1>4. ASSUME NEW j \in OpsSlot, posts'[j].op \in OpsOps
      PROVE  KnowsOf(posts'[j], Len(records'))
  <2>1. CASE j = i
    BY <1>3, <1>4, <2>1, NotPosted
  <2>2. CASE j # i
    <3>1. KnowsOf(posts[j], Len(records)) /\ posts'[j] = posts[j]
      BY <1>3, <1>4, <2>2 DEF PostsOK, Posted
    <3>2. posts[j].id \in Nat /\ posts[j].rows \in Nat
      BY <3>1, OpsAssumption DEF KnowsOf, OpsCall
    <3>3. posts[j].id <= Len(records') /\ posts[j].rows <= Len(records')
      BY <1>1, <3>1, <3>2 DEF KnowsOf
    <3> QED
      BY <3>1, <3>3 DEF KnowsOf
  <2> QED
    BY <2>1, <2>2
<1> QED
  BY <1>3, <1>4 DEF PostsOK, Posted

\* A call that names a record that is there knows only records that are there.
LEMMA APostOK ==
    ASSUME NEW op \in OpsOps, NEW n \in 0..MaxRecords, NEW id \in 0..n,
           NEW hid \in OpsChannels \cup {"none"}, NEW flag \in OpsFlags \cup {"none"},
           panel.on \in BOOLEAN, op = "rollback" => id # 0
    PROVE  /\ KnowsOf(APost(op, id, hid, flag), n)
           /\ APost(op, id, hid, flag).op = op /\ APost(op, id, hid, flag).flag = flag
<1>1. /\ APost(op, id, hid, flag) \in OpsCall /\ APost(op, id, hid, flag).id = id
      /\ APost(op, id, hid, flag).rows = 0
      /\ APost(op, id, hid, flag).op = op /\ APost(op, id, hid, flag).flag = flag
  BY OpsAssumption DEF APost, OpsCall
<1> QED
  BY <1>1, OpsAssumption DEF KnowsOf

\* The parts that a step of the page leaves alone.
LEMMA ServerKept ==
    ASSUME EngineOK, RecordsOK, UNCHANGED <<paused, override, records, watched>>
    PROVE  EngineOK' /\ RecordsOK' /\ Len(records') = Len(records)
BY DEF EngineOK, RecordsOK

\* The page sends a call.
LEMMA PostKeeps ==
    ASSUME PostsOK, RecordsOK, UNCHANGED <<records, watched>>,
           NEW c, KnowsOf(c, Len(records)), Post(c)
    PROVE  PostsOK'
<1>1. PICK i \in OpsSlot : posts' = [posts EXCEPT ![i] = c]
  BY DEF Post
<1>2. RecordsOK' /\ Len(records') = Len(records) /\ Len(records) \in Nat
  BY RecordsLen DEF RecordsOK
<1>3. KnowsOf(c, Len(records')) /\ Len(records) <= Len(records')
  BY <1>2
<1> QED
  BY <1>1, <1>2, <1>3, PostsPut

\* There are as many records as the bound allows at most.
LEMMA LengthOK ==
    ASSUME RecordsOK
    PROVE  Len(records) \in 0..MaxRecords
<1>1. Len(records) \in Nat /\ Len(records) <= MaxRecords /\ MaxRecords \in Nat
  BY RecordsLen
<1> QED
  BY <1>1

\* The panel starts typed, without records.
LEMMA OpsTypedInit == OpsInit => OpsTyped /\ RecordsFit
<1> SUFFICES ASSUME OpsInit PROVE OpsTyped /\ RecordsFit
  OBVIOUS
<1>1. EngineOK
  BY DEF OpsInit, EngineOK, Override, NoOverride
<1>2. RecordsOK /\ RecordsFit /\ Len(records) = 0
  BY OpsAssumption DEF OpsInit, RecordsOK, RecordsFit
<1>3. PanelOK
  BY <1>2, OpsAssumption DEF OpsInit, PanelOK, Panel
<1>4. KnowsOf(APost("all", 0, "none", "initialLoading"), 0)
  BY <1>3, APostOK, OpsAssumption DEF OpsOps, Loads, OpsFlags, PanelOK, Panel
<1>5. PostsOK
  <2> DEFINE c == APost("all", 0, "none", "initialLoading")
  <2>1. posts = [i \in OpsSlot |-> IF i = 1 THEN c ELSE NoPost] /\ c \in OpsCall
    BY <1>4 DEF OpsInit, KnowsOf
  <2>2. KnowsOf(c, Len(records))
    BY <1>2, <1>4
  <2> HIDE DEF c
  <2> QED
    BY <2>1, <2>2, NotPosted DEF PostsOK, Posted
<1> QED
  BY <1>1, <1>2, <1>3, <1>5 DEF OpsTyped, OpsInit, OpsFlags

\* A call that was served: what it brings, and that it is still the same call.
Answering(c, d) == /\ d.op = c.op /\ d.flag = c.flag /\ d.hid = c.hid /\ d.id = c.id /\ d.served

\* What serving a call does to its slot.
LEMMA PostServed ==
    ASSUME OpsTyped, EngineOK', RecordsOK', Len(records) <= Len(records'), opsOn' \in BOOLEAN,
           NEW i \in OpsSlot, Posted(i), Served(i)
    PROVE  \E c : /\ posts' = [posts EXCEPT ![i] = c] /\ KnowsOf(c, Len(records'))
                  /\ Answering(posts[i], c)
<1>1. KnowsOf(posts[i], Len(records)) /\ posts[i] \in OpsCall
  BY DEF OpsTyped, PostsOK, KnowsOf
<1>2. Len(records) \in Nat /\ Len(records') \in 0..MaxRecords /\ posts[i].id \in Nat
  <2>1. Len(records') \in Nat /\ Len(records') <= MaxRecords /\ Len(records) \in Nat
    BY LenProperties DEF RecordsOK, OpsTyped
  <2> QED
    BY <1>1, <2>1, OpsAssumption DEF OpsCall
<1>3. posts[i].id <= Len(records') /\ posts[i].rows <= Len(records')
  <2>1. posts[i].rows \in Nat
    BY <1>1, OpsAssumption DEF OpsCall
  <2> QED
    BY <1>1, <1>2, <2>1 DEF KnowsOf
<1>4. CASE posts[i].op \in Loads \cup {"save"}
  <2> DEFINE c == [posts[i] EXCEPT !.served = TRUE, !.paused = paused', !.rows = Len(records'),
                                   !.on = opsOn']
  <2>1. posts' = [posts EXCEPT ![i] = c]
    BY <1>4 DEF Served
  <2>2. /\ c \in OpsCall /\ Answering(posts[i], c) /\ c.rows = Len(records')
    BY <1>1, <1>2 DEF OpsCall, Answering, EngineOK
  <2>3. KnowsOf(c, Len(records'))
    <3> HIDE DEF c
    <3> QED
      BY <1>1, <1>2, <1>3, <2>2 DEF KnowsOf, Answering
  <2> QED
    BY <2>1, <2>2, <2>3
<1>5. CASE posts[i].op \notin Loads \cup {"save"}
  <2> DEFINE c == [posts[i] EXCEPT !.served = TRUE]
  <2>1. posts' = [posts EXCEPT ![i] = c]
    BY <1>5 DEF Served
  <2>2. /\ c \in OpsCall /\ Answering(posts[i], c) /\ c.rows = posts[i].rows
    BY <1>1 DEF OpsCall, Answering
  <2>3. KnowsOf(c, Len(records'))
    <3> HIDE DEF c
    <3> QED
      BY <1>1, <1>3, <2>2 DEF KnowsOf, Answering
  <2> QED
    BY <2>1, <2>2, <2>3
<1> QED
  BY <1>4, <1>5

\* What a step on the server does: nothing to the engine and the records, or
\* a plan is executed, or a record is rolled back, or a channel is resumed.
EngineSteps == \/ UNCHANGED <<paused, override, records>> /\ watched' \subseteq watched
               \/ \E plan \in Plans : Execute(plan)
               \/ /\ \E id \in 1..Len(records) : Rollback(id)
                  /\ watched' \subseteq watched
               \/ /\ paused' \subseteq paused
                  /\ UNCHANGED <<override, records, watched>>

\* Serving a call changes engine and records only as EngineSteps says.
LEMMA EngineStepsForms ==
    ASSUME OpsTyped, NEW i \in OpsSlot, ServePost(i)
    PROVE  EngineSteps /\ opsOn' \in BOOLEAN
<1> DEFINE c == posts[i]
<1>1. KnowsOf(c, Len(records)) /\ opsOn \in BOOLEAN /\ c.on \in BOOLEAN
  BY DEF OpsTyped, PostsOK, ServePost, KnowsOf, OpsCall
<1> HIDE DEF c
<1>2. \/ c.op = "execute" /\ opsOn /\ (\E plan \in Plans : Execute(plan)) /\ UNCHANGED opsOn
      \/ c.op = "rollback" /\ Rollback(c.id) /\ UNCHANGED <<watched, opsOn>>
      \/ /\ c.op = "resume" /\ c.hid \in paused
         /\ paused' = paused \ {c.hid}
         /\ UNCHANGED <<override, records, watched, opsOn>>
      \/ c.op = "save" /\ opsOn' = c.on /\ UNCHANGED <<paused, override, records, watched>>
      \/ c.op \in Loads \cup {"analyze", "execute", "detail"} /\ Idle
  BY DEF ServePost, c
<1>3. CASE c.op = "rollback" /\ Rollback(c.id) /\ UNCHANGED <<watched, opsOn>>
  <2>1. Len(records) \in Nat
    BY RecordsLen DEF OpsTyped
  <2>2. c.id \in Nat /\ c.id <= Len(records) /\ c.id # 0
    BY <1>1, <1>3, OpsAssumption DEF KnowsOf, OpsCall
  <2>3. c.id \in 1..Len(records)
    BY <2>1, <2>2
  <2> QED
    BY <1>1, <1>3, <2>3 DEF EngineSteps
<1>4. CASE c.op = "execute" /\ opsOn /\ (\E plan \in Plans : Execute(plan)) /\ UNCHANGED opsOn
  BY <1>1, <1>4 DEF EngineSteps
<1>5. CASE /\ c.op = "resume" /\ c.hid \in paused
           /\ paused' = paused \ {c.hid}
           /\ UNCHANGED <<override, records, watched, opsOn>>
  BY <1>1, <1>5 DEF EngineSteps
<1>6. CASE c.op = "save" /\ opsOn' = c.on /\ UNCHANGED <<paused, override, records, watched>>
  BY <1>1, <1>6 DEF EngineSteps
<1>7. CASE Idle
  BY <1>1, <1>7 DEF EngineSteps, Idle
<1> QED
  BY <1>2, <1>3, <1>4, <1>5, <1>6, <1>7

\* The server keeps its types, and no record is lost.
LEMMA EngineStepsKeep ==
    ASSUME EngineOK, RecordsOK, EngineSteps
    PROVE  EngineOK' /\ RecordsOK' /\ Len(records) <= Len(records')
<1>0. Len(records) \in Nat
  BY RecordsLen
<1>1. CASE UNCHANGED <<paused, override, records>> /\ watched' \subseteq watched
  BY <1>0, <1>1 DEF EngineOK, RecordsOK
<1>2. ASSUME NEW plan \in Plans, Execute(plan)
      PROVE  EngineOK' /\ RecordsOK' /\ Len(records) <= Len(records')
  BY <1>0, <1>2, ExecuteKeeps
<1>3. ASSUME NEW id \in 1..Len(records), Rollback(id), watched' \subseteq watched
      PROVE  EngineOK' /\ RecordsOK' /\ Len(records) <= Len(records')
  BY <1>0, <1>3, RollbackKeeps
<1>4. CASE paused' \subseteq paused /\ UNCHANGED <<override, records, watched>>
  BY <1>0, <1>4 DEF EngineOK, RecordsOK
<1> QED
  BY <1>1, <1>2, <1>3, <1>4 DEF EngineSteps

\* An unchanged page knows of no more records when there are more of them.
LEMMA PanelKept ==
    ASSUME PanelOK, RecordsOK, RecordsOK', Len(records) <= Len(records'), UNCHANGED panel
    PROVE  PanelOK'
<1>1. Len(records) \in Nat /\ Len(records') \in Nat
  BY LenProperties DEF RecordsOK
<1>2. panel.rows \in Nat /\ panel.row \in Nat
  BY OpsAssumption DEF PanelOK, Panel
<1> QED
  BY <1>1, <1>2 DEF PanelOK

\* What a click sends: a call of the page, that names no record.
LEMMA ClickKeeps ==
    ASSUME OpsTyped, NEW op \in OpsOps \ {"rollback"}, NEW hid \in OpsChannels \cup {"none"},
           NEW flag \in OpsFlags \cup {"none"}, NEW flags,
           Click(APost(op, 0, hid, flag), flags)
    PROVE  OpsTyped'
<1> DEFINE c == APost(op, 0, hid, flag)
<1>1. /\ Post(c) /\ obusy' = obusy \cup ({c.flag} \ {"none"})
      /\ UNCHANGED <<paused, override, records, watched, opsOn, panel>>
  BY DEF Click
<1>2. Len(records) \in 0..MaxRecords /\ panel.on \in BOOLEAN /\ 0 \in 0..Len(records)
  BY LengthOK, RecordsLen DEF OpsTyped, PanelOK, Panel
<1>3. KnowsOf(c, Len(records)) /\ c.flag = flag
  BY <1>2, APostOK
<1> HIDE DEF c
<1>4. PostsOK'
  BY <1>1, <1>3, PostKeeps DEF OpsTyped
<1>5. EngineOK' /\ RecordsOK' /\ Len(records') = Len(records)
  BY <1>1, ServerKept DEF OpsTyped
<1>6. PanelOK'
  BY <1>1 DEF OpsTyped, PanelOK
<1> QED
  BY <1>1, <1>3, <1>4, <1>5, <1>6 DEF OpsTyped

\* An answer takes down only flags that are up.
LEMMA LoweredOK == \A c : Lowered(c) \subseteq obusy
BY DEF Lowered

\* What an answer shows, of an answer that knows of records that are there.
LEMMA ShowsOK ==
    ASSUME PanelOK, RecordsOK, NEW c, KnowsOf(c, Len(records)), panel' = Shows(c),
           UNCHANGED <<records, watched>>
    PROVE  PanelOK'
<1>1. c \in OpsCall /\ panel \in Panel /\ c.id <= Len(records) /\ c.rows <= Len(records)
  BY DEF KnowsOf, PanelOK
<1>2. panel' \in Panel
  BY <1>1 DEF Shows, Panel, OpsCall
<1>3. panel'.rows \in {panel.rows, c.rows} /\ panel'.row \in {panel.row, c.id}
  BY <1>1 DEF Shows, Panel, OpsCall
<1> QED
  BY <1>1, <1>2, <1>3 DEF PanelOK

\* The load that follows a change is one of three.
LEMMA FollowsOK ==
    ASSUME NEW c \in OpsCall
    PROVE  Follows(c.op) \in {"mutated", "config", "status", "none"}
BY DEF Follows

\* Every step keeps the types of the panel and of its calls.
LEMMA OpsTypedStep == OpsTyped /\ [OpsNext]_opsVars => OpsTyped'
<1> SUFFICES ASSUME OpsTyped, [OpsNext]_opsVars PROVE OpsTyped'
  OBVIOUS
<1>0. /\ EngineOK /\ RecordsOK /\ PanelOK /\ PostsOK
      /\ opsOn \in BOOLEAN /\ obusy \subseteq OpsFlags
      /\ Len(records) \in 0..MaxRecords /\ panel \in Panel
  BY LengthOK DEF OpsTyped, PanelOK
<1>u. ASSUME UNCHANGED <<paused, override, records, watched>>
      PROVE  EngineOK' /\ RecordsOK' /\ Len(records') = Len(records) /\ Len(records) <= Len(records')
  <2>1. EngineOK' /\ RecordsOK' /\ Len(records') = Len(records)
    BY <1>0, <1>u, ServerKept
  <2> QED
    BY <1>0, <2>1
<1>1. ASSUME NEW i \in OpsSlot, ServePost(i) PROVE OpsTyped'
  <2>1. EngineSteps /\ opsOn' \in BOOLEAN /\ Served(i) /\ Posted(i) /\ UNCHANGED <<panel, obusy>>
    BY <1>1, EngineStepsForms DEF ServePost
  <2>2. EngineOK' /\ RecordsOK' /\ Len(records) <= Len(records')
    BY <1>0, <2>1, EngineStepsKeep
  <2>3. PICK c : posts' = [posts EXCEPT ![i] = c] /\ KnowsOf(c, Len(records'))
    BY <2>1, <2>2, PostServed
  <2>4. PostsOK'
    BY <1>0, <2>2, <2>3, PostsPut
  <2>5. PanelOK'
    BY <1>0, <2>1, <2>2, PanelKept
  <2> QED
    BY <1>0, <2>1, <2>2, <2>4, <2>5 DEF OpsTyped
<1>2. ASSUME NEW i \in OpsSlot, AnswerPost(i) PROVE OpsTyped'
  <2> DEFINE c == posts[i]
  <2>1. /\ Posted(i) /\ KnowsOf(c, Len(records)) /\ c \in OpsCall
        /\ UNCHANGED <<paused, override, records, watched, opsOn>> /\ panel' = Shows(c)
    BY <1>0, <1>2 DEF AnswerPost, PostsOK, KnowsOf
  <2>2. \/ /\ Follows(c.op) # "none" /\ UNCHANGED obusy
           /\ posts' = [posts EXCEPT ![i] = APost(Follows(c.op), 0, "none", c.flag)]
        \/ posts' = [posts EXCEPT ![i] = PostOver] /\ obusy' = Lowered(c)
    BY <1>2 DEF AnswerPost
  <2> HIDE DEF c
  <2>3. PanelOK'
    BY <1>0, <2>1, ShowsOK
  <2>4. PostsOK' /\ obusy' \subseteq OpsFlags
    <3>1. CASE /\ Follows(c.op) # "none" /\ UNCHANGED obusy
               /\ posts' = [posts EXCEPT ![i] = APost(Follows(c.op), 0, "none", c.flag)]
      <4>1. Follows(c.op) \in OpsOps \ {"rollback"} /\ c.flag \in OpsFlags \cup {"none"}
        BY <2>1, <3>1, FollowsOK DEF OpsOps, Loads, OpsCall
      <4>2. KnowsOf(APost(Follows(c.op), 0, "none", c.flag), Len(records))
        BY <1>0, <4>1, APostOK DEF Panel
      <4>3. KnowsOf(APost(Follows(c.op), 0, "none", c.flag), Len(records'))
        BY <2>1, <4>2
      <4> QED
        BY <1>0, <1>u, <2>1, <3>1, <4>3, PostsPut
    <3>2. CASE posts' = [posts EXCEPT ![i] = PostOver] /\ obusy' = Lowered(c)
      BY <1>0, <1>u, <2>1, <3>2, LoweredOK, PostsPut
    <3> QED
      BY <2>2, <3>1, <3>2
  <2> QED
    BY <1>0, <1>u, <2>1, <2>3, <2>4 DEF OpsTyped
<1>3. ASSUME NEW i \in OpsSlot, FailPost(i) PROVE OpsTyped'
  <2>1. /\ UNCHANGED <<paused, override, records, watched, opsOn>> /\ obusy' \subseteq obusy
        /\ panel' \in {panel, [panel EXCEPT !.open = FALSE]}
        /\ posts' = [posts EXCEPT ![i] = PostOver]
    BY <1>3, LoweredOK DEF FailPost
  <2>2. PanelOK'
    BY <1>0, <2>1 DEF PanelOK, Panel
  <2>3. PostsOK'
    BY <1>0, <1>u, <2>1, PostsPut
  <2> QED
    BY <1>0, <1>u, <2>1, <2>2, <2>3 DEF OpsTyped
<1>4. ASSUME WatcherExecutes \/ \E id \in watched : Observed(id) PROVE OpsTyped'
  <2>1. /\ EngineSteps /\ UNCHANGED <<opsOn, panel, obusy, posts>>
    BY <1>0, <1>4 DEF WatcherExecutes, Observed, EngineSteps, RecordsOK
  <2>2. EngineOK' /\ RecordsOK' /\ Len(records) <= Len(records')
    BY <1>0, <2>1, EngineStepsKeep
  <2>3. PanelOK'
    BY <1>0, <2>1, <2>2, PanelKept
  <2>4. PostsOK'
    <3>1. ASSUME NEW i \in OpsSlot, Posted(i) PROVE KnowsOf(posts[i], Len(records'))
      <4>1. KnowsOf(posts[i], Len(records)) /\ posts[i].id \in Nat /\ posts[i].rows \in Nat
        BY <1>0, <3>1, OpsAssumption DEF PostsOK, KnowsOf, OpsCall
      <4>2. Len(records') \in Nat /\ Len(records) \in Nat
        BY <1>0, <2>2, LenProperties DEF RecordsOK
      <4>3. posts[i].id <= Len(records') /\ posts[i].rows <= Len(records')
        BY <2>2, <4>1, <4>2 DEF KnowsOf
      <4> QED
        BY <4>1, <4>3 DEF KnowsOf
    <3> QED
      BY <1>0, <2>1, <3>1 DEF PostsOK, Posted
  <2> QED
    BY <1>0, <2>1, <2>2, <2>3, <2>4 DEF OpsTyped
<1>5. CASE EditOpsConfig \/ CloseDetail
  <2>1. /\ UNCHANGED <<paused, override, records, watched, opsOn, obusy, posts>>
        /\ panel' \in {[panel EXCEPT !.on = ~@], [panel EXCEPT !.open = FALSE]}
    BY <1>5 DEF EditOpsConfig, CloseDetail
  <2>2. PanelOK'
    BY <1>0, <2>1 DEF PanelOK, Panel
  <2>3. PostsOK'
    BY <1>0, <2>1 DEF PostsOK, Posted
  <2> QED
    BY <1>0, <1>u, <2>1, <2>2, <2>3 DEF OpsTyped
<1>6. CASE SaveOpsConfig
  BY <1>6, ClickKeeps DEF SaveOpsConfig, OpsOps, Loads, OpsFlags
<1>7. CASE RefreshAudit
  BY <1>7, ClickKeeps DEF RefreshAudit, OpsOps, Loads, OpsFlags
<1>8. ASSUME NEW execute \in BOOLEAN, RunAnalyze(execute) PROVE OpsTyped'
  <2>1. \/ Click(APost("execute", 0, "none", "executing"), {"analyzing", "executing"})
        \/ Click(APost("analyze", 0, "none", "analyzing"), {"analyzing", "executing"})
    BY <1>8 DEF RunAnalyze
  <2> QED
    BY <2>1, ClickKeeps DEF OpsOps, Loads, OpsFlags
<1>9. ASSUME NEW h \in OpsChannels, ResumeChannel(h) PROVE OpsTyped'
  BY <1>9, ClickKeeps DEF ResumeChannel, OpsOps, Loads, OpsFlags
<1>10. ASSUME NEW id \in 1..MaxRecords, OpenDetail(id) PROVE OpsTyped'
  <2>1. /\ id \in 1..panel.rows /\ Post(APost("detail", id, "none", "detailLoading"))
        /\ panel' = [panel EXCEPT !.open = TRUE] /\ obusy' = obusy \cup {"detailLoading"}
        /\ UNCHANGED <<paused, override, records, watched, opsOn>>
    BY <1>10 DEF OpenDetail
  <2>2. id \in 0..Len(records)
    <3>1. panel.rows \in Nat /\ panel.rows <= Len(records)
      BY <1>0, OpsAssumption DEF PanelOK, Panel
    <3> QED
      BY <1>0, <2>1, <3>1
  <2>3. KnowsOf(APost("detail", id, "none", "detailLoading"), Len(records))
    BY <1>0, <2>2, APostOK DEF Panel, OpsOps, OpsFlags
  <2>4. PostsOK'
    BY <1>0, <2>1, <2>3, PostKeeps
  <2>5. PanelOK'
    BY <1>0, <2>1 DEF PanelOK, Panel
  <2> QED
    BY <1>0, <1>u, <2>1, <2>4, <2>5 DEF OpsTyped, OpsFlags
<1>11. CASE RollbackRow
  <2>1. /\ panel.row # 0 /\ Post(APost("rollback", panel.row, "none", "none"))
        /\ UNCHANGED <<paused, override, records, watched, opsOn, panel, obusy>>
    BY <1>11 DEF RollbackRow
  <2>2. panel.row \in 0..Len(records)
    <3>1. panel.row \in Nat /\ panel.row <= Len(records)
      BY <1>0, OpsAssumption DEF PanelOK, Panel
    <3> QED
      BY <1>0, <3>1
  <2>3. KnowsOf(APost("rollback", panel.row, "none", "none"), Len(records))
    BY <1>0, <2>1, <2>2, APostOK DEF Panel, OpsOps
  <2>4. PostsOK'
    BY <1>0, <2>1, <2>3, PostKeeps
  <2>5. PanelOK'
    BY <1>0, <2>1 DEF PanelOK
  <2> QED
    BY <1>0, <1>u, <2>1, <2>4, <2>5 DEF OpsTyped
<1>12. CASE UNCHANGED opsVars
  <2>1. UNCHANGED <<paused, override, records, watched, opsOn, panel, obusy, posts>>
    BY <1>12 DEF opsVars
  <2> QED
    BY <1>0, <1>u, <2>1 DEF OpsTyped, PanelOK, PostsOK, Posted
<1> QED
  BY <1>1, <1>2, <1>3, <1>4, <1>5, <1>6, <1>7, <1>8, <1>9, <1>10, <1>11, <1>12 DEF OpsNext

\* The types of the panel of AiOpsView.vue, of its calls and of the audit records
\* of ops_executor.go hold for any channels, plans and records.
THEOREM OpsTypeCorrect == OpsSpec => []OpsTypeOK
<1>1. OpsTyped => OpsTypeOK
  <2> SUFFICES ASSUME OpsTyped PROVE OpsTypeOK
    OBVIOUS
  <2>1. \A n \in DOMAIN records : records[n] \in Record
    BY RecordsLen DEF OpsTyped
  <2> QED
    BY <2>1 DEF OpsTyped, OpsTypeOK, EngineOK, RecordsOK, PanelOK, PostsOK
<1> QED
  BY <1>1, OpsTypedInit, OpsTypedStep, PTL DEF OpsSpec

-----------------------------------------------------------------------------
(* OpsPanel: a rollback restores what held.                                *)

\* The records fit also after a step of the server, and a status changes
\* only by a rollback.
RolledHere(n) == records[n].status = "executed" /\ records'[n].status = "rolled back"

\* What the server does keeps the records, and a rollback undoes the snapshots of its record.
LEMMA RecordsStep ==
    ASSUME EngineOK, RecordsOK, RecordsFit, EngineSteps
    PROVE  /\ RecordsFit'
           /\ \A n \in 1..Len(records) :
                 RolledHere(n) => Now' = RolledBack(Now, records[n].snap)
<1>0. Len(records) \in Nat
  BY RecordsLen
<1>1. CASE UNCHANGED records
  BY <1>1 DEF RecordsFit, RecordFits, RolledHere
<1>2. ASSUME NEW plan \in Plans, Execute(plan)
      PROVE  RecordsFit' /\ \A n \in 1..Len(records) : ~RolledHere(n)
  <2>1. /\ Len(records') = Len(records) + 1
        /\ \A n \in 1..Len(records) : records'[n] = records[n]
        /\ RecordFits(records'[Len(records) + 1])
    BY <1>2, ExecuteKeeps
  <2>2. ASSUME NEW n \in 1..Len(records') PROVE RecordFits(records'[n])
    <3>1. n \in 1..Len(records) \/ n = Len(records) + 1
      BY <1>0, <2>1
    <3> QED
      BY <2>1, <3>1 DEF RecordsFit
  <2>3. RecordsFit'
    BY <2>2 DEF RecordsFit, RecordFits
  <2>4. \A n \in 1..Len(records) : ~RolledHere(n)
    BY <2>1 DEF RolledHere
  <2> QED
    BY <2>3, <2>4
<1>3. ASSUME NEW id \in 1..Len(records), Rollback(id), watched' \subseteq watched
      PROVE  /\ RecordsFit'
             /\ \A n \in 1..Len(records) :
                   RolledHere(n) => Now' = RolledBack(Now, records[n].snap)
  <2>1. /\ Len(records') = Len(records) /\ Now' = RolledBack(Now, records[id].snap)
        /\ \A n \in 1..Len(records) \ {id} : records'[n] = records[n]
        /\ records'[id].snap = records[id].snap /\ records'[id].was = records[id].was
        /\ records'[id].left = records[id].left
    BY <1>3, RollbackKeeps
  <2>2. ASSUME NEW n \in 1..Len(records) PROVE RecordFits(records'[n])
    <3>1. RecordFits(records[n])
      BY DEF RecordsFit
    <3> QED
      BY <2>1, <3>1 DEF RecordFits
  <2>3. RecordsFit'
    BY <2>1, <2>2 DEF RecordsFit, RecordFits
  <2>4. \A n \in 1..Len(records) : RolledHere(n) => n = id
    BY <2>1 DEF RolledHere
  <2> QED
    BY <2>1, <2>3, <2>4
<1>4. CASE paused' \subseteq paused /\ UNCHANGED <<override, records, watched>>
  BY <1>1, <1>4
<1> QED
  BY <1>1, <1>2, <1>3, <1>4 DEF EngineSteps

\* Every step is a step of the server or leaves its state alone.
LEMMA OpsNextEngine == OpsTyped /\ [OpsNext]_opsVars => EngineSteps
<1> SUFFICES ASSUME OpsTyped, [OpsNext]_opsVars PROVE EngineSteps
  OBVIOUS
<1>1. ASSUME NEW i \in OpsSlot, ServePost(i) PROVE EngineSteps
  BY <1>1, EngineStepsForms
<1>2. CASE WatcherExecutes \/ \E id \in watched : Observed(id)
  BY <1>2 DEF WatcherExecutes, Observed, EngineSteps, OpsTyped, RecordsOK
<1>3. ASSUME UNCHANGED <<paused, override, records, watched>> PROVE EngineSteps
  BY <1>3 DEF EngineSteps
<1> QED
  BY <1>1, <1>2, <1>3 DEF OpsNext, opsVars, AnswerPost, FailPost, EditOpsConfig, CloseDetail,
     SaveOpsConfig, RefreshAudit, RunAnalyze, ResumeChannel, OpenDetail, RollbackRow, Click

\* RollbackRestores in one step.
Restores == \A n \in DOMAIN records :
    (/\ records[n].status = "executed" /\ records'[n].status = "rolled back"
     /\ Now = records[n].left
     /\ \A k \in DOMAIN records[n].snap : records[n].snap[k].act.do # "resume")
    => Holding(Now)' = Holding(records[n].was)

\* Every step restores what it should.
LEMMA RestoresStep == OpsTyped /\ RecordsFit /\ [OpsNext]_opsVars => Restores
<1> SUFFICES ASSUME OpsTyped, RecordsFit, [OpsNext]_opsVars, NEW n \in DOMAIN records,
                    RolledHere(n), Now = records[n].left,
                    \A k \in DOMAIN records[n].snap : records[n].snap[k].act.do # "resume"
             PROVE  Holding(Now)' = Holding(records[n].was)
  BY DEF Restores, RolledHere
<1>1. n \in 1..Len(records) /\ records[n] \in Record
  BY RecordsLen DEF OpsTyped
<1>2. Now' = RolledBack(Now, records[n].snap)
  BY <1>1, OpsNextEngine, RecordsStep DEF OpsTyped
<1>3. PICK plan \in Plans : /\ records[n].snap = Executed(records[n].was, plan).snap
                            /\ records[n].left = Executed(records[n].was, plan).left
  BY <1>1 DEF RecordsFit, RecordFits
<1> DEFINE e == records[n].was
<1>4. e \in Engine
  BY <1>1 DEF Record
<1>5. \A k \in DOMAIN Executed(e, plan).snap : Executed(e, plan).snap[k].act.do # "resume"
  BY <1>3
<1>6. Now' = RolledBack(Executed(e, plan).left, Executed(e, plan).snap)
  BY <1>2, <1>3
<1> HIDE DEF e
<1>7. Holding(RolledBack(Executed(e, plan).left, Executed(e, plan).snap)) = Holding(e)
  BY <1>4, <1>5, PlanTakenBack
<1>8. Holding(Now)' = Holding(Now')
  BY DEF Holding, Now
<1> QED
  BY <1>6, <1>7, <1>8 DEF e

\* A rollback takes the channels back to what held before the plan, whatever
\* the plan did to one channel twice and whoever asks for it, if nothing came
\* in between and no channel was resumed.
THEOREM RollbackIsInverse == OpsSpec => RollbackRestores
<1>1. OpsInit => OpsTyped /\ RecordsFit
  BY OpsTypedInit
<1>2. OpsTyped /\ RecordsFit /\ [OpsNext]_opsVars => (OpsTyped /\ RecordsFit)'
  <2> SUFFICES ASSUME OpsTyped, RecordsFit, [OpsNext]_opsVars PROVE OpsTyped' /\ RecordsFit'
    OBVIOUS
  <2>1. RecordsFit'
    BY OpsNextEngine, RecordsStep DEF OpsTyped
  <2> QED
    BY <2>1, OpsTypedStep
<1>3. OpsTyped /\ RecordsFit /\ [OpsNext]_opsVars => [Restores]_opsVars
  BY RestoresStep
<1>4. OpsSpec => [][Restores]_opsVars
  BY <1>1, <1>2, <1>3, PTL DEF OpsSpec
<1> QED
  BY <1>4 DEF RollbackRestores, Restores

-----------------------------------------------------------------------------
(* OpsPanel: the flags of the page.                                        *)

\* The load of the whole page is the one that lowers two flags, and it holds
\* the first of them.
AllHolds == \A i \in OpsSlot : Posted(i) /\ posts[i].op = "all" =>
                posts[i].flag = "initialLoading"

FlagsInv == OpsFlagsHaveCause /\ AllHolds

\* A call that is sent or served: the flags of the others have their causes
\* still, and a new flag has it in this call.
LEMMA FlagsPut ==
    ASSUME PostsOK, FlagsInv, NEW i \in OpsSlot, NEW c, c.op \in OpsOps,
           posts' = [posts EXCEPT ![i] = c],
           Posted(i) => c.flag = posts[i].flag,
           obusy' \subseteq obusy \cup {c.flag},
           c.op = "all" => c.flag = "initialLoading"
    PROVE  FlagsInv'
<1>1. posts'[i] = c /\ \A j \in OpsSlot \ {i} : posts'[j] = posts[j]
  BY DEF PostsOK
<1>2. ASSUME NEW f \in obusy' PROVE \E j \in OpsSlot : Posted(j)' /\ posts'[j].flag = f
  <2>1. CASE f = c.flag
    BY <1>1, <2>1 DEF Posted
  <2>2. CASE f # c.flag
    <3>1. PICK j \in OpsSlot : Posted(j) /\ posts[j].flag = f
      BY <1>2, <2>2 DEF FlagsInv, OpsFlagsHaveCause
    <3>2. j # i
      BY <2>2, <3>1
    <3> QED
      BY <1>1, <3>1, <3>2 DEF Posted
  <2> QED
    BY <2>1, <2>2
<1>3. AllHolds'
  BY <1>1 DEF FlagsInv, AllHolds, Posted
<1> QED
  BY <1>2, <1>3 DEF FlagsInv, OpsFlagsHaveCause

\* A call that ends takes its own flag down.
LEMMA FlagsOver ==
    ASSUME OpsTyped, FlagsInv, NEW i \in OpsSlot, Posted(i),
           posts' = [posts EXCEPT ![i] = PostOver], obusy' = Lowered(posts[i])
    PROVE  FlagsInv'
<1>1. /\ posts'[i] = PostOver /\ \A j \in OpsSlot \ {i} : posts'[j] = posts[j]
      /\ posts[i] \in OpsCall
  BY DEF OpsTyped, PostsOK, KnowsOf
<1>2. posts[i].flag \notin obusy'
  <2>1. CASE posts[i].op = "all"
    BY <2>1 DEF Lowered, FlagsInv, AllHolds
  <2>2. CASE posts[i].op # "all"
    BY <2>2 DEF Lowered
  <2> QED
    BY <2>1, <2>2
<1>3. ASSUME NEW f \in obusy' PROVE \E j \in OpsSlot : Posted(j)' /\ posts'[j].flag = f
  <2>1. f \in obusy /\ f # posts[i].flag
    BY <1>2, <1>3, LoweredOK
  <2>2. PICK j \in OpsSlot : Posted(j) /\ posts[j].flag = f
    BY <2>1 DEF FlagsInv, OpsFlagsHaveCause
  <2> QED
    BY <1>1, <2>1, <2>2 DEF Posted
<1>4. AllHolds'
  BY <1>1, NotPosted DEF FlagsInv, AllHolds, Posted
<1> QED
  BY <1>3, <1>4 DEF FlagsInv, OpsFlagsHaveCause

\* A new call raises its own flag.
LEMMA FlagsSent ==
    ASSUME PostsOK, FlagsInv, NEW c, c.op \in OpsOps \ {"all"}, Post(c),
           obusy' \subseteq obusy \cup {c.flag}
    PROVE  FlagsInv'
<1>1. PICK i \in OpsSlot : posts[i] = NoPost /\ posts' = [posts EXCEPT ![i] = c]
  BY DEF Post
<1>2. ~Posted(i)
  BY <1>1, NotPosted DEF Posted
<1> QED
  BY <1>1, <1>2, FlagsPut

\* No flag is up without its call at the start.
LEMMA FlagsStart == OpsInit => FlagsInv
<1> SUFFICES ASSUME OpsInit PROVE FlagsInv
  OBVIOUS
<1>1. /\ posts = [i \in OpsSlot |-> IF i = 1 THEN APost("all", 0, "none", "initialLoading")
                                  ELSE NoPost]
      /\ obusy = {"initialLoading"} /\ 1 \in OpsSlot
  BY OpsAssumption DEF OpsInit, OpsSlot
<1>2. APost("all", 0, "none", "initialLoading").op = "all"
      /\ APost("all", 0, "none", "initialLoading").flag = "initialLoading"
  BY DEF APost
<1>3. Posted(1) /\ posts[1].flag = "initialLoading"
  BY <1>1, <1>2 DEF Posted, OpsOps, Loads
<1>4. AllHolds
  BY <1>1, <1>2, NotPosted DEF AllHolds, Posted
<1> QED
  BY <1>1, <1>3, <1>4 DEF FlagsInv, OpsFlagsHaveCause

\* A click that sends a call raises the flag that the call takes down.
LEMMA ClickFlags ==
    ASSUME OpsTyped, FlagsInv, NEW op \in OpsOps \ {"all"}, NEW hid, NEW flag, NEW flags,
           Click(APost(op, 0, hid, flag), flags)
    PROVE  FlagsInv'
<1> DEFINE c == APost(op, 0, hid, flag)
<1>1. Post(c) /\ obusy' = obusy \cup ({c.flag} \ {"none"}) /\ c.op = op
  BY DEF Click, APost
<1> HIDE DEF c
<1> QED
  BY <1>1, FlagsSent DEF OpsTyped

\* Every step leaves each flag that is up a call that takes it down.
LEMMA FlagsStep == OpsTyped /\ FlagsInv /\ [OpsNext]_opsVars => FlagsInv'
<1> SUFFICES ASSUME OpsTyped, FlagsInv, [OpsNext]_opsVars PROVE FlagsInv'
  OBVIOUS
<1>0. PostsOK
  BY DEF OpsTyped
<1>1. ASSUME NEW i \in OpsSlot, ServePost(i) PROVE FlagsInv'
  <2>1. EngineSteps /\ opsOn' \in BOOLEAN /\ Served(i) /\ Posted(i) /\ UNCHANGED obusy
    BY <1>1, EngineStepsForms DEF ServePost
  <2>2. EngineOK' /\ RecordsOK' /\ Len(records) <= Len(records')
    BY <2>1, EngineStepsKeep DEF OpsTyped
  <2>3. PICK c : posts' = [posts EXCEPT ![i] = c] /\ Answering(posts[i], c)
    BY <2>1, <2>2, PostServed
  <2>4. /\ c.op \in OpsOps /\ c.flag = posts[i].flag /\ obusy' \subseteq obusy \cup {c.flag}
        /\ c.op = "all" => c.flag = "initialLoading"
    BY <2>1, <2>3 DEF Answering, Posted, FlagsInv, AllHolds
  <2> QED
    BY <1>0, <2>3, <2>4, FlagsPut
<1>2. ASSUME NEW i \in OpsSlot, AnswerPost(i) PROVE FlagsInv'
  <2>1. Posted(i)
    BY <1>2 DEF AnswerPost
  <2>2. CASE posts' = [posts EXCEPT ![i] = PostOver] /\ obusy' = Lowered(posts[i])
    BY <2>1, <2>2, FlagsOver
  <2>3. CASE /\ Follows(posts[i].op) # "none" /\ UNCHANGED obusy
             /\ posts' = [posts EXCEPT ![i] = APost(Follows(posts[i].op), 0, "none", posts[i].flag)]
    <3> DEFINE c == APost(Follows(posts[i].op), 0, "none", posts[i].flag)
    <3>1. c.op = Follows(posts[i].op) /\ c.flag = posts[i].flag
      BY DEF APost
    <3>2. c.op \in OpsOps \ {"all"}
      BY <2>3, <3>1 DEF Follows, OpsOps, Loads
    <3> HIDE DEF c
    <3>3. posts' = [posts EXCEPT ![i] = c] /\ obusy' \subseteq obusy \cup {c.flag}
      BY <2>3 DEF c
    <3> QED
      BY <1>0, <2>1, <3>1, <3>2, <3>3, FlagsPut
  <2> QED
    BY <1>2, <2>2, <2>3 DEF AnswerPost
<1>3. ASSUME NEW i \in OpsSlot, FailPost(i) PROVE FlagsInv'
  BY <1>3, FlagsOver DEF FailPost
<1>4. CASE SaveOpsConfig
  BY <1>4, ClickFlags DEF SaveOpsConfig, OpsOps, Loads
<1>5. CASE RefreshAudit
  BY <1>5, ClickFlags DEF RefreshAudit, OpsOps, Loads
<1>6. ASSUME NEW execute \in BOOLEAN, RunAnalyze(execute) PROVE FlagsInv'
  <2>1. \/ Click(APost("execute", 0, "none", "executing"), {"analyzing", "executing"})
        \/ Click(APost("analyze", 0, "none", "analyzing"), {"analyzing", "executing"})
    BY <1>6 DEF RunAnalyze
  <2> QED
    BY <2>1, ClickFlags DEF OpsOps, Loads
<1>7. ASSUME NEW h \in OpsChannels, ResumeChannel(h) PROVE FlagsInv'
  BY <1>7, ClickFlags DEF ResumeChannel, OpsOps, Loads
<1>8. ASSUME NEW id \in 1..MaxRecords, OpenDetail(id) PROVE FlagsInv'
  <2> DEFINE c == APost("detail", id, "none", "detailLoading")
  <2>1. /\ Post(c) /\ obusy' = obusy \cup {c.flag} /\ c.op \in OpsOps \ {"all"}
    BY <1>8 DEF OpenDetail, APost, OpsOps
  <2> HIDE DEF c
  <2> QED
    BY <1>0, <2>1, FlagsSent
<1>9. CASE RollbackRow
  <2> DEFINE c == APost("rollback", panel.row, "none", "none")
  <2>1. /\ Post(c) /\ obusy' = obusy /\ c.op \in OpsOps \ {"all"}
    BY <1>9 DEF RollbackRow, APost, OpsOps
  <2> HIDE DEF c
  <2> QED
    BY <1>0, <2>1, FlagsSent
<1>10. ASSUME UNCHANGED <<posts, obusy>> PROVE FlagsInv'
  BY <1>10 DEF FlagsInv, OpsFlagsHaveCause, AllHolds, Posted
<1> QED
  BY <1>1, <1>2, <1>3, <1>4, <1>5, <1>6, <1>7, <1>8, <1>9, <1>10 DEF OpsNext, opsVars,
     WatcherExecutes, Observed, EditOpsConfig, CloseDetail

\* No button of the page stays disabled for ever: a flag that is up has a call
\* under way that takes it down, through the loads that follow a change.
THEOREM NoOpsFlagIsStuck == OpsSpec => []OpsFlagsHaveCause
<1>1. OpsInit => OpsTyped /\ FlagsInv
  BY OpsTypedInit, FlagsStart
<1>2. OpsTyped /\ FlagsInv /\ [OpsNext]_opsVars => (OpsTyped /\ FlagsInv)'
  BY OpsTypedStep, FlagsStep
<1>3. FlagsInv => OpsFlagsHaveCause
  BY DEF FlagsInv
<1> QED
  BY <1>1, <1>2, <1>3, PTL DEF OpsSpec

-----------------------------------------------------------------------------
(* ConsoleSession.                                                         *)

\* A call names only tokens that were created.
IssuedOnly == \A t \in Tabs : tabs[t].net.token <= issued
SessionTyped == SessionTypeOK /\ IssuedOnly

\* What the server says now to a browser with this token, and where a
\* navigation to a view goes if nothing changes.
Status(n) == IF ~installed THEN "bare" ELSE IF n \in sessions THEN "in" ELSE "out"
Sent(v) == Instead([to |-> v, token |-> Bearer, says |-> Status(Bearer)])

\* A calm navigation carries the token of the browser and knows nothing but
\* what the server still says.  After one redirect it stays where it is sent,
\* or it is sent to the console and leaves it once more; after the second one
\* it stays.  A fresh one goes to the console with a session.
CalmTab(tab) == tab.calm =>
    /\ tab.nav.to \in Views /\ tab.nav.token = Bearer
    /\ tab.nav.says \in {"none", Status(Bearer)}
    /\ tab.hops <= 2
    /\ tab.hops = 1 => Sent(tab.nav.to) = NoView \/ (tab.nav.to = "admin" /\ Status(Bearer) = "in")
    /\ tab.hops = 2 => Sent(tab.nav.to) = NoView
    /\ tab.fresh => tab.nav.to = "admin" /\ stored # 0 /\ Status(Bearer) = "in"

\* A fresh and calm navigation ends in the console.
Lands(old, new) == old.fresh /\ old.calm /\ old.nav # NoNav /\ new.nav = NoNav
                   => new.view = "admin"

SessionInv == /\ ~installed => sessions = {}
              /\ \A t \in Tabs : CalmTab(tabs[t])

\* Where the guard sends a navigation, and where from there.
LEMMA SentOnce ==
    ASSUME NEW v \in Views, Sent(v) # NoView
    PROVE  /\ Sent(v) \in Views
           /\ Sent(Sent(v)) = NoView \/ (Sent(v) = "admin" /\ Status(Bearer) = "in")
BY DEF Sent, Instead, LoggedIn, Views, NoView, Status

\* A browser with a session that is sent away from the console has no token in
\* its storage, and stays where it is sent.
LEMMA SentTwice ==
    ASSUME Status(Bearer) = "in", Sent("admin") # NoView
    PROVE  Sent(Sent("admin")) = NoView /\ stored = 0
BY DEF Sent, Instead, LoggedIn, Views, NoView, Status

\* The guard names a view, or none.
LEMMA InsteadIsView == \A nav \in Nav : Instead(nav) \in Views \cup {NoView}
BY DEF Instead, Views, NoView

\* A call under way differs from none.
LEMMA NotNoNet == \A tab \in Tab : tab.net.op # "none" => tab.net # NoNet
BY DEF NoNet

\* The numbers of tokens.
LEMMA TokenOK ==
    ASSUME SessionTypeOK
    PROVE  /\ issued \in Nat /\ MaxSessions \in Nat /\ issued <= MaxSessions
           /\ Bearer \in 0..issued /\ 0..issued \subseteq Token
           /\ 0 \in Token
<1>1. issued \in 0..MaxSessions /\ MaxSessions \in Nat
  BY SessionAssumption DEF SessionTypeOK, Token
<1>2. issued \in Nat /\ issued <= MaxSessions /\ 0..issued \subseteq 0..MaxSessions
  BY <1>1
<1>3. Bearer \in 0..issued
  BY DEF SessionTypeOK, Bearer
<1> QED
  BY <1>1, <1>2, <1>3 DEF Token

\* A tab keeps its types when it begins, continues or ends a navigation.
LEMMA LeadsOK ==
    ASSUME SessionTypeOK', NEW v \in Views
    PROVE  Leads(v) \in Nav /\ Leads(v).to = v /\ Leads(v).token = Bearer' /\ Leads(v).says = "none"
<1>1. Bearer' \in Token
  <2>1. issued' \in 0..MaxSessions /\ MaxSessions \in Nat
    BY SessionAssumption DEF SessionTypeOK, Token
  <2>2. Bearer' \in 0..issued'
    BY DEF SessionTypeOK, Bearer
  <2> QED
    BY <2>1, <2>2 DEF Token
<1> QED
  BY <1>1 DEF Leads, Nav

\* A navigation that is begun.
LEMMA HeadsOK ==
    ASSUME NEW tab \in Tab, NEW v \in Views, NEW fresh \in BOOLEAN, NEW calm \in BOOLEAN,
           Bearer' \in Token
    PROVE  /\ Heads(tab, v, fresh, calm) \in Tab
           /\ Heads(tab, v, fresh, calm).net = tab.net
           /\ Heads(tab, v, fresh, calm).nav.to = v
           /\ Heads(tab, v, fresh, calm).nav.token = Bearer'
           /\ Heads(tab, v, fresh, calm).nav.says = "none"
           /\ Heads(tab, v, fresh, calm).nav # NoNav
           /\ Heads(tab, v, fresh, calm).hops = 0
           /\ Heads(tab, v, fresh, calm).calm = calm /\ Heads(tab, v, fresh, calm).fresh = fresh
<1>1. Leads(v) \in Nav /\ Leads(v).to = v /\ Leads(v).token = Bearer' /\ Leads(v).says = "none"
  BY DEF Leads, Nav
<1>2. Leads(v) # NoNav
  BY <1>1 DEF NoNav, Views, NoView
<1> HIDE DEF Leads
<1>3. 0 \in 0..3
  OBVIOUS
<1>4. Heads(tab, v, fresh, calm) \in Tab
  BY <1>1, <1>3 DEF Heads, Tab
<1>5. Heads(tab, v, fresh, calm) =
         [tab EXCEPT !.nav = Leads(v), !.hops = 0, !.calm = calm, !.fresh = fresh]
  BY DEF Heads
<1> QED
  BY <1>1, <1>2, <1>4, <1>5 DEF Tab

\* A navigation that is redirected.
LEMMA RedirectedOK ==
    ASSUME NEW tab \in Tab, NEW v \in Views, Bearer' \in Token
    PROVE  /\ Redirected(tab, v) \in Tab
           /\ Redirected(tab, v).net = tab.net
           /\ Redirected(tab, v).nav.to = v
           /\ Redirected(tab, v).nav.token = Bearer'
           /\ Redirected(tab, v).nav.says = "none"
           /\ Redirected(tab, v).nav # NoNav
           /\ Redirected(tab, v).hops = IF tab.hops = 3 THEN 3 ELSE tab.hops + 1
           /\ Redirected(tab, v).calm = tab.calm /\ Redirected(tab, v).fresh = tab.fresh
<1>1. Leads(v) \in Nav /\ Leads(v).to = v /\ Leads(v).token = Bearer' /\ Leads(v).says = "none"
  BY DEF Leads, Nav
<1>2. Leads(v) # NoNav
  BY <1>1 DEF NoNav, Views, NoView
<1>3. tab.hops \in 0..3
  BY DEF Tab
<1>4. (IF tab.hops = 3 THEN 3 ELSE tab.hops + 1) \in 0..3
  BY <1>3
<1> HIDE DEF Leads
<1> QED
  BY <1>1, <1>2, <1>4 DEF Redirected, Tab

\* A navigation that has ended.
LEMMA ArrivedOK ==
    ASSUME NEW tab \in Tab
    PROVE  /\ Arrived(tab) \in Tab /\ Arrived(tab).net = tab.net
           /\ ~Arrived(tab).calm /\ Arrived(tab).view = tab.nav.to
<1>1. NoNav \in Nav /\ tab.nav.to \in Views \cup {NoView}
  BY SessionAssumption DEF Nav, NoNav, Tab, Token
<1>2. 0 \in 0..3 /\ 1 \in {1, 2} /\ tab.net \in Net
  BY DEF Tab
<1> DEFINE to == tab.nav.to
<1>3. Arrived(tab) = [tab EXCEPT !.view = to, !.nav = NoNav, !.step = 1,
                                 !.hops = 0, !.calm = FALSE, !.fresh = FALSE]
  BY DEF Arrived
<1>4. to \in Views \cup {NoView}
  BY <1>1
<1> HIDE DEF to
<1>5. Arrived(tab) \in Tab
  BY <1>1, <1>2, <1>3, <1>4 DEF Tab
<1>6. Arrived(tab).net = tab.net /\ ~Arrived(tab).calm /\ Arrived(tab).view = to
  BY <1>3 DEF Tab
<1> QED
  BY <1>5, <1>6 DEF to

\* A step that changes one tab, and neither the server nor the browser.
LEMMA TabPut ==
    ASSUME SessionTyped, SessionInv, UNCHANGED <<Server, Browser>>, moves' \in 0..MaxMoves,
           NEW t \in Tabs, NEW tab \in Tab, tabs' = [tabs EXCEPT ![t] = tab],
           tab.net.token <= issued, CalmTab(tab), Lands(tabs[t], tab)
    PROVE  SessionTyped' /\ SessionInv' /\ \A u \in Tabs : Lands(tabs[u], tabs'[u])
<1>1. /\ tabs' \in [Tabs -> Tab] /\ tabs'[t] = tab
      /\ \A u \in Tabs \ {t} : tabs'[u] = tabs[u]
  BY DEF SessionTyped, SessionTypeOK
<1>2. UNCHANGED <<installed, sessions, issued, stored, cookie>>
  BY DEF Server, Browser
<1>3. SessionTypeOK'
  BY <1>1, <1>2 DEF SessionTyped, SessionTypeOK
<1>4. IssuedOnly'
  BY <1>1, <1>2 DEF SessionTyped, IssuedOnly
<1>5. \A u \in Tabs : CalmTab(tabs'[u])
  BY <1>1 DEF SessionInv
<1>6. SessionInv'
  BY <1>2, <1>5 DEF SessionInv, CalmTab, Sent, Status, Bearer, Instead, LoggedIn
<1>7. \A u \in Tabs : Lands(tabs[u], tabs'[u])
  BY <1>1 DEF Lands
<1> QED
  BY <1>3, <1>4, <1>6, <1>7 DEF SessionTyped

\* Tabs of which none is calm.
LEMMA UnsettledOK ==
    ASSUME NEW ts \in [Tabs -> Tab]
    PROVE  /\ Unsettled(ts) \in [Tabs -> Tab]
           /\ \A t \in Tabs : /\ ~Unsettled(ts)[t].calm
                           /\ Unsettled(ts)[t].net = ts[t].net
                           /\ Unsettled(ts)[t].nav = ts[t].nav
BY DEF Unsettled, Tab

\* A step that changes the server or the browser, and leaves no tab calm.
LEMMA AllUnsettled ==
    ASSUME NEW ts \in [Tabs -> Tab], tabs' = Unsettled(ts),
           \A t \in Tabs : ts[t].net.token <= issued' /\ ts[t].nav = tabs[t].nav,
           installed' \in BOOLEAN, issued' \in Token, sessions' \subseteq 1..issued',
           stored' \in 0..issued', cookie' \in 0..issued', moves' \in 0..MaxMoves,
           ~installed' => sessions' = {}
    PROVE  SessionTyped' /\ SessionInv' /\ \A u \in Tabs : Lands(tabs[u], tabs'[u])
<1>1. /\ tabs' \in [Tabs -> Tab]
      /\ \A t \in Tabs : /\ ~tabs'[t].calm /\ tabs'[t].net = ts[t].net
                         /\ tabs'[t].nav = ts[t].nav
  BY UnsettledOK
<1>2. SessionTypeOK' /\ IssuedOnly'
  BY <1>1 DEF SessionTypeOK, IssuedOnly
<1>3. SessionInv'
  BY <1>1 DEF SessionInv, CalmTab
<1>4. \A u \in Tabs : Lands(tabs[u], tabs'[u])
  BY <1>1 DEF Lands
<1> QED
  BY <1>2, <1>3, <1>4 DEF SessionTyped

\* A browser starts typed, and at rest or on its way with what the server says.
LEMMA SessionStart == SessionInit => SessionTyped /\ SessionInv
<1> SUFFICES ASSUME SessionInit PROVE SessionTyped /\ SessionInv
  OBVIOUS
<1>0. MaxSessions \in Nat /\ MaxMoves \in Nat
  BY SessionAssumption
<1>1. PICK v \in {NoView, "install", "admin", "login"} :
          tabs = [t \in Tabs |-> [view |-> v, step |-> 1, nav |-> NoNav, net |-> NoNet,
                                  hops |-> 0, calm |-> FALSE, fresh |-> FALSE]]
  BY DEF SessionInit
<1>2. NoNav \in Nav /\ NoNet \in Net /\ NoNet.token = 0
  BY <1>0 DEF Nav, NoNav, Net, NoNet, Token
<1>3. tabs \in [Tabs -> Tab] /\ \A t \in Tabs : tabs[t].net.token = 0 /\ ~tabs[t].calm
  BY <1>1, <1>2 DEF Tab, Views, NoView
<1>4. /\ issued \in {0, 1} /\ sessions \subseteq 1..issued
      /\ stored \in 0..issued /\ cookie \in 0..issued
      /\ installed \in BOOLEAN /\ moves = 0
      /\ ~installed => issued = 0
  BY DEF SessionInit
<1>a. /\ MaxSessions \in Nat \ {0} /\ 0 \in 0..MaxSessions
      /\ \A n \in 0..issued : n \in {0, 1}
  BY <1>0, <1>4, SessionAssumption
<1>b. issued \in 0..MaxSessions /\ moves \in 0..MaxMoves
  BY <1>0, <1>4, SessionAssumption
<1>5. SessionTypeOK
  BY <1>b, <1>3, <1>4 DEF SessionTypeOK, Token
<1>6. IssuedOnly
  <2>1. 0 <= issued
    BY <1>4
  <2> QED
    BY <1>3, <2>1 DEF IssuedOnly
<1>7. ~installed => sessions = {}
  <2>1. 1..0 = {}
    OBVIOUS
  <2> QED
    BY <1>4, <2>1
<1> QED
  BY <1>3, <1>5, <1>6, <1>7 DEF SessionTyped, SessionInv, CalmTab

\* An answer that changes the browser: its tab sets out anew, no other is calm.
LEMMA BrowserChanged ==
    ASSUME SessionTyped, UNCHANGED <<Server, moves>>,
           stored' \in 0..issued, cookie' \in 0..issued, ~installed => sessions = {},
           NEW t \in Tabs, NEW tab \in Tab, tabs' = [Unsettled(tabs) EXCEPT ![t] = tab],
           tab.net.token <= issued, tab.nav # NoNav,
           tab.calm => /\ tab.nav.to \in Views /\ tab.nav.token = Bearer'
                       /\ tab.nav.says = "none" /\ tab.hops = 0,
           tab.calm /\ tab.fresh => /\ tab.nav.to = "admin" /\ stored' # 0
                                    /\ Bearer' \in sessions /\ installed
    PROVE  SessionTyped' /\ SessionInv' /\ \A u \in Tabs : Lands(tabs[u], tabs'[u])
<1>1. /\ Unsettled(tabs) \in [Tabs -> Tab]
      /\ \A u \in Tabs : /\ ~Unsettled(tabs)[u].calm
                         /\ Unsettled(tabs)[u].net = tabs[u].net
                         /\ Unsettled(tabs)[u].nav = tabs[u].nav
  BY UnsettledOK DEF SessionTyped, SessionTypeOK
<1>2. UNCHANGED <<installed, sessions, issued, moves>>
  BY DEF Server
<1>3. /\ tabs' \in [Tabs -> Tab] /\ tabs'[t] = tab
      /\ \A u \in Tabs \ {t} : /\ ~tabs'[u].calm /\ tabs'[u].net = tabs[u].net
                               /\ tabs'[u].nav = tabs[u].nav
  BY <1>1
<1>4. SessionTypeOK'
  BY <1>2, <1>3 DEF SessionTyped, SessionTypeOK
<1>5. IssuedOnly'
  BY <1>2, <1>3 DEF SessionTyped, IssuedOnly
<1>6. \A u \in Tabs : Lands(tabs[u], tabs'[u])
  BY <1>3 DEF Lands
<1>7. SessionInv'
  <2>1. ASSUME tab.calm
        PROVE  /\ tab.nav.to \in Views /\ tab.nav.token = Bearer'
               /\ tab.nav.says = "none" /\ tab.hops = 0
               /\ tab.fresh => /\ tab.nav.to = "admin" /\ stored' # 0
                               /\ Bearer' \in sessions' /\ installed'
    BY <1>2, <2>1
  <2>2. ASSUME NEW u \in Tabs, tabs'[u].calm PROVE u = t
    BY <1>3, <2>2
  <2>3. ~installed' => sessions' = {}
    BY <1>2
  <2> QED
    BY <1>3, <2>1, <2>2, <2>3 DEF SessionInv, CalmTab, Status
<1> QED
  BY <1>4, <1>5, <1>6, <1>7 DEF SessionTyped

\* What a tab is before a step.
LEMMA TabOf ==
    ASSUME SessionTyped, NEW t \in Tabs
    PROVE  /\ tabs[t] \in Tab /\ tabs[t].net \in Net /\ tabs[t].nav \in Nav
           /\ tabs[t].net.token <= issued /\ moves \in 0..MaxMoves /\ moves \in Nat
<1>1. tabs[t] \in Tab /\ tabs[t].net.token <= issued /\ moves \in 0..MaxMoves
  BY DEF SessionTyped, SessionTypeOK, IssuedOnly
<1> QED
  BY <1>1, SessionAssumption DEF Tab

\* The moves of a tab are counted up to the bound.
LEMMA MovedOK == ASSUME SessionTyped, Moved PROVE moves' \in 0..MaxMoves
<1>1. moves \in 0..MaxMoves /\ MaxMoves \in Nat
  BY SessionAssumption DEF SessionTyped, SessionTypeOK
<1> QED
  BY <1>1 DEF Moved

\* The browser and the server stay: so does what they say.
LEMMA SameBearer ==
    ASSUME SessionTyped, UNCHANGED <<Server, Browser>>
    PROVE  Bearer' = Bearer /\ Bearer' \in Token /\ Bearer \in 0..issued
<1>1. Bearer' = Bearer
  BY DEF Browser, Bearer
<1> QED
  BY <1>1, TokenOK DEF SessionTyped

\* A navigation begins: a link, an address.
LEMMA SetsOut ==
    ASSUME SessionTyped, SessionInv, UNCHANGED <<Server, Browser>>, moves' \in 0..MaxMoves,
           NEW t \in Tabs, NEW v \in Views, NEW old \in Tab, old.net.token <= issued,
           tabs' = [tabs EXCEPT ![t] = Heads(old, v, FALSE, TRUE)]
    PROVE  SessionTyped' /\ SessionInv' /\ \A u \in Tabs : Lands(tabs[u], tabs'[u])
<1>1. Bearer' = Bearer /\ Bearer' \in Token
  BY SameBearer
<1>2. PICK tab \in Tab : /\ tab = Heads(old, v, FALSE, TRUE) /\ tab.net = old.net
                         /\ tab.nav.to = v /\ tab.nav.token = Bearer' /\ tab.nav.says = "none"
                         /\ tab.nav # NoNav /\ tab.hops = 0 /\ tab.calm /\ ~tab.fresh
  BY <1>1, HeadsOK
<1>3. CalmTab(tab)
  <2>1. tab.nav.to \in Views
    BY <1>1, <1>2
  <2>2. tab.nav.token = Bearer
    BY <1>1, <1>2
  <2>3. tab.nav.says = "none" /\ tab.hops = 0
    BY <1>1, <1>2
  <2>4. 0 <= 2 /\ 0 # 1 /\ 0 # 2
    OBVIOUS
  <2>5. ~tab.fresh
    BY <1>1, <1>2
  <2> QED
    BY <2>1, <2>2, <2>3, <2>4, <2>5 DEF CalmTab
<1>4. Lands(tabs[t], tab)
  BY <1>2 DEF Lands
<1> QED
  BY <1>2, <1>3, <1>4, TabPut

\* A navigation is begun by a link or by the address bar.
LEMMA FollowStep ==
    ASSUME SessionTyped, SessionInv, NEW t \in Tabs, NEW v \in Views, Follow(t, v) \/ Visit(t, v)
    PROVE  SessionTyped' /\ SessionInv' /\ \A u \in Tabs : Lands(tabs[u], tabs'[u])
<1>1. /\ UNCHANGED <<Server, Browser>> /\ Moved
      /\ tabs' = [tabs EXCEPT ![t] = Heads(tabs[t], v, FALSE, TRUE)]
  BY DEF Follow, Visit
<1>2. moves' \in 0..MaxMoves /\ tabs[t] \in Tab /\ tabs[t].net.token <= issued
  BY <1>1, MovedOK, TabOf
<1> QED
  BY <1>1, <1>2, SetsOut

\* The server tells a navigation its status.
LEMMA ServeStatusStep ==
    ASSUME SessionTyped, SessionInv, NEW t \in Tabs, ServeStatus(t)
    PROVE  SessionTyped' /\ SessionInv' /\ \A u \in Tabs : Lands(tabs[u], tabs'[u])
<1> DEFINE old == tabs[t]
           said == Status(old.nav.token)
<1>1. /\ old \in Tab /\ old.nav \in Nav /\ old.net.token <= issued
      /\ tabs \in [Tabs -> Tab]
  BY TabOf DEF SessionTyped, SessionTypeOK
<1>2. UNCHANGED <<Server, Browser>> /\ moves' \in 0..MaxMoves /\ old.nav.to # NoView
  BY TabOf DEF ServeStatus
<1>3. said \in {"bare", "in", "out"} /\ CalmTab(old)
  BY DEF Status, SessionInv
<1>4. CASE tabs' = [tabs EXCEPT ![t].nav.says = said]
  <2> DEFINE tab == [old EXCEPT !.nav.says = said]
  <2>1. tabs' = [tabs EXCEPT ![t] = tab]
    BY <1>1, <1>4
  <2> HIDE DEF said
  <2>2. /\ tab \in Tab /\ tab.net = old.net /\ tab.calm = old.calm /\ tab.hops = old.hops
        /\ tab.fresh = old.fresh /\ tab.nav.to = old.nav.to /\ tab.nav.token = old.nav.token
        /\ tab.nav.says = said
    BY <1>1, <1>3 DEF Tab, Nav
  <2> HIDE DEF tab
  <2>3. tab.nav # NoNav
    BY <1>2, <2>2 DEF NoNav
  <2>4. CalmTab(tab)
    <3>1. old.calm => old.nav.token = Bearer
      BY <1>3 DEF CalmTab
    <3> HIDE DEF old
    <3>2. old.calm => said = Status(Bearer)
      BY <3>1 DEF said
    <3> QED
      BY <1>3, <2>2, <3>2 DEF CalmTab
  <2>5. Lands(tabs[t], tab)
    BY <2>3 DEF Lands
  <2> QED
    BY <1>1, <1>2, <2>1, <2>2, <2>4, <2>5, TabPut
<1>5. CASE tabs' = [tabs EXCEPT ![t].nav.says = "bare", ![t].calm = FALSE]
  <2> DEFINE tab == [old EXCEPT !.nav.says = "bare", !.calm = FALSE]
  <2>1. tabs' = [tabs EXCEPT ![t] = tab]
    BY <1>1, <1>5
  <2>2. /\ tab \in Tab /\ tab.net = old.net /\ ~tab.calm /\ tab.nav.to = old.nav.to
    BY <1>1 DEF Tab, Nav
  <2> HIDE DEF tab
  <2>3. tab.nav # NoNav
    BY <1>2, <2>2 DEF NoNav
  <2>4. CalmTab(tab) /\ Lands(tabs[t], tab)
    BY <2>2, <2>3 DEF Lands, CalmTab
  <2> QED
    BY <1>1, <1>2, <2>1, <2>2, <2>4, TabPut
<1> QED
  BY <1>4, <1>5 DEF ServeStatus, Status

\* The guard redirects the navigation, or lets it end.
LEMMA AnswerStatusStep ==
    ASSUME SessionTyped, SessionInv, NEW t \in Tabs, AnswerStatus(t)
    PROVE  SessionTyped' /\ SessionInv' /\ \A u \in Tabs : Lands(tabs[u], tabs'[u])
<1> DEFINE old == tabs[t]
<1>1. old \in Tab /\ old.nav \in Nav /\ old.net.token <= issued
  BY TabOf
<1>2. UNCHANGED <<Server, Browser>> /\ moves' \in 0..MaxMoves /\ old.nav.says # "none"
  BY TabOf DEF AnswerStatus
<1>3. Bearer' = Bearer /\ Bearer' \in Token
  BY <1>2, SameBearer
<1>4. ASSUME old.calm
      PROVE  /\ Instead(old.nav) = Sent(old.nav.to) /\ old.nav.to \in Views
             /\ old.fresh => Instead(old.nav) = NoView
  <2>1. /\ old.nav.token = Bearer /\ old.nav.says = Status(Bearer) /\ old.nav.to \in Views
        /\ old.fresh => old.nav.to = "admin" /\ stored # 0 /\ Status(Bearer) = "in"
    BY <1>2, <1>4 DEF SessionInv, CalmTab
  <2>2. Instead(old.nav) = Sent(old.nav.to)
    BY <2>1 DEF Instead, Sent, LoggedIn
  <2>3. old.fresh => Instead(old.nav) = NoView
    BY <2>1 DEF Instead, LoggedIn
  <2> QED
    BY <2>1, <2>2, <2>3
<1>5. CASE Instead(old.nav) = NoView
  <2>1. tabs' = [tabs EXCEPT ![t] = Arrived(old)]
    BY <1>5 DEF AnswerStatus
  <2>2. PICK tab \in Tab : /\ tab = Arrived(old) /\ tab.net = old.net /\ ~tab.calm
                           /\ tab.view = old.nav.to
    BY <1>1, ArrivedOK
  <2>3. CalmTab(tab) /\ Lands(old, tab)
    BY <2>2 DEF CalmTab, Lands, SessionInv
  <2> QED
    BY <1>1, <1>2, <2>1, <2>2, <2>3, TabPut
<1>6. CASE Instead(old.nav) # NoView
  <2> DEFINE v == Instead(old.nav)
  <2>1. tabs' = [tabs EXCEPT ![t] = Redirected(old, v)] /\ v \in Views
    BY <1>1, <1>6, InsteadIsView DEF AnswerStatus
  <2>2. PICK tab \in Tab :
           /\ tab = Redirected(old, v) /\ tab.net = old.net
           /\ tab.nav.to = v /\ tab.nav.token = Bearer' /\ tab.nav.says = "none"
           /\ tab.nav # NoNav /\ tab.hops = IF old.hops = 3 THEN 3 ELSE old.hops + 1
           /\ tab.calm = old.calm /\ tab.fresh = old.fresh
    BY <1>1, <1>3, <2>1, RedirectedOK
  <2>3. Lands(old, tab)
    BY <2>2 DEF Lands
  <2>4. ASSUME old.calm PROVE CalmTab(tab)
    <3>1. /\ v = Sent(old.nav.to) /\ old.nav.to \in Views /\ ~tab.fresh
      BY <1>4, <1>6, <2>2, <2>4
    <3>2. /\ old.hops \in 0..2
          /\ old.hops = 1 => Sent(old.nav.to) = NoView \/ (old.nav.to = "admin" /\ Status(Bearer) = "in")
          /\ old.hops = 2 => Sent(old.nav.to) = NoView
      BY <1>1, <2>4 DEF SessionInv, CalmTab, Tab
    <3>3. CASE old.hops = 0
      <4>1. tab.hops = 1
        BY <2>2, <3>3
      <4>2. Sent(tab.nav.to) = NoView \/ (tab.nav.to = "admin" /\ Status(Bearer) = "in")
        BY <1>6, <2>2, <3>1, SentOnce
      <4> QED
        BY <1>3, <2>1, <2>2, <3>1, <4>1, <4>2 DEF CalmTab
    <3>4. CASE old.hops = 1
      <4>1. tab.hops = 2
        BY <2>2, <3>4
      <4>2. Sent(tab.nav.to) = NoView
        BY <1>6, <2>2, <3>1, <3>2, <3>4, SentTwice
      <4> QED
        BY <1>3, <2>1, <2>2, <3>1, <4>1, <4>2 DEF CalmTab
    <3>5. CASE old.hops = 2
      BY <1>6, <3>1, <3>2, <3>5
    <3> QED
      BY <3>2, <3>3, <3>4, <3>5
  <2>5. CalmTab(tab)
    BY <2>2, <2>4 DEF CalmTab
  <2> QED
    BY <1>1, <1>2, <2>1, <2>2, <2>3, <2>5, TabPut
<1> QED
  BY <1>5, <1>6

\* The status cannot be had.
LEMMA FailStatusStep ==
    ASSUME SessionTyped, SessionInv, NEW t \in Tabs, FailStatus(t)
    PROVE  SessionTyped' /\ SessionInv' /\ \A u \in Tabs : Lands(tabs[u], tabs'[u])
<1> DEFINE old == tabs[t]
<1>1. old \in Tab /\ old.nav \in Nav /\ old.net.token <= issued
  BY TabOf
<1>2. UNCHANGED <<Server, Browser>> /\ moves' \in 0..MaxMoves
  BY TabOf DEF FailStatus
<1>3. Bearer' = Bearer /\ Bearer' \in Token
  BY <1>2, SameBearer
<1>4. CASE old.nav.to = "install"
  <2>1. tabs' = [tabs EXCEPT ![t] = Arrived(old)]
    BY <1>4 DEF FailStatus
  <2>2. PICK tab \in Tab : /\ tab = Arrived(old) /\ tab.net = old.net /\ ~tab.calm
    BY <1>1, ArrivedOK
  <2>3. CalmTab(tab) /\ Lands(old, tab)
    BY <1>4, <2>2 DEF CalmTab, Lands, SessionInv
  <2> QED
    BY <1>1, <1>2, <2>1, <2>2, <2>3, TabPut
<1>5. CASE old.nav.to # "install"
  <2> DEFINE gone == Redirected(old, "install")
             tab == [gone EXCEPT !.calm = FALSE]
  <2>1. tabs' = [tabs EXCEPT ![t] = tab]
    BY <1>5 DEF FailStatus
  <2>2. gone \in Tab /\ gone.net = old.net /\ gone.nav # NoNav
    BY <1>1, <1>3, RedirectedOK DEF Views
  <2> HIDE DEF gone
  <2>3. tab \in Tab /\ tab.net = old.net /\ tab.nav # NoNav /\ ~tab.calm
    BY <2>2 DEF Tab
  <2> HIDE DEF tab
  <2>4. CalmTab(tab) /\ Lands(old, tab)
    BY <2>3 DEF CalmTab, Lands
  <2> QED
    BY <1>1, <1>2, <2>1, <2>3, <2>4, TabPut
<1> QED
  BY <1>4, <1>5

\* A step that only changes the other call of a tab, or the step of the wizard.
LEMMA QuietPut ==
    ASSUME SessionTyped, SessionInv, UNCHANGED <<Server, Browser>>, moves' \in 0..MaxMoves,
           NEW t \in Tabs, NEW net \in Net, net.token <= issued, NEW step \in {1, 2},
           tabs' = [tabs EXCEPT ![t].net = net, ![t].step = step]
    PROVE  SessionTyped' /\ SessionInv' /\ \A u \in Tabs : Lands(tabs[u], tabs'[u])
<1> DEFINE tab == [tabs[t] EXCEPT !.net = net, !.step = step]
<1>1. tabs[t] \in Tab /\ tabs \in [Tabs -> Tab]
  BY TabOf DEF SessionTyped, SessionTypeOK
<1>2. tabs' = [tabs EXCEPT ![t] = tab]
  BY <1>1
<1>3. /\ tab \in Tab /\ tab.net = net /\ tab.nav = tabs[t].nav /\ tab.calm = tabs[t].calm
      /\ tab.hops = tabs[t].hops /\ tab.fresh = tabs[t].fresh
  BY <1>1 DEF Tab
<1> HIDE DEF tab
<1>4. CalmTab(tab) /\ Lands(tabs[t], tab)
  BY <1>3 DEF CalmTab, Lands, SessionInv
<1> QED
  BY <1>2, <1>3, <1>4, TabPut

\* A call that carries the token of the browser.
LEMMA CallMade ==
    ASSUME SessionTyped, NEW op \in NetOps, NEW says \in {"none", "ok", "no"}
    PROVE  /\ [op |-> op, token |-> Bearer, says |-> says] \in Net
           /\ [op |-> op, token |-> Bearer, says |-> says].token <= issued
<1>1. Bearer \in Token /\ Bearer <= issued
  BY TokenOK DEF SessionTyped
<1> QED
  BY <1>1 DEF Net

\* A tab without a call.
LEMMA NoCall == ASSUME SessionTyped PROVE NoNet \in Net /\ NoNet.token <= issued
<1>1. 0 \in Token /\ 0 <= issued
  BY TokenOK DEF SessionTyped
<1> QED
  BY <1>1 DEF NoNet, Net

\* The clicks.
LEMMA ClickStep ==
    ASSUME SessionTyped, SessionInv, NEW t \in Tabs,
           \/ Login(t) \/ Logout(t) \/ LoadPage(t) \/ TestDB(t) \/ RunInstall(t) \/ StepBack(t)
    PROVE  SessionTyped' /\ SessionInv' /\ \A u \in Tabs : Lands(tabs[u], tabs'[u])
<1>1. tabs[t] \in Tab /\ tabs \in [Tabs -> Tab] /\ tabs[t].net \in Net /\ tabs[t].net.token <= issued
  BY TabOf DEF SessionTyped, SessionTypeOK
<1>2. CASE StepBack(t)
  <2>1. tabs' = [tabs EXCEPT ![t].net = tabs[t].net, ![t].step = 1]
    BY <1>1, <1>2 DEF StepBack, Tab
  <2>2. UNCHANGED <<Server, Browser>> /\ moves' \in 0..MaxMoves
    BY <1>2, TabOf DEF StepBack
  <2> QED
    BY <1>1, <2>1, <2>2, QuietPut
<1>3. CASE ~StepBack(t)
  <2>1. PICK op \in NetOps, w \in Views : Send(t, w, op)
    BY <1>3 DEF Login, Logout, LoadPage, TestDB, RunInstall, NetOps, TestOps, Views
  <2> DEFINE net == [op |-> op, token |-> Bearer, says |-> "none"]
  <2>2. net \in Net /\ net.token <= issued
    BY CallMade
  <2>3. UNCHANGED <<Server, Browser>> /\ moves' \in 0..MaxMoves
    BY <2>1, MovedOK DEF Send
  <2>4. tabs' = [tabs EXCEPT ![t].net = net]
    BY <2>1 DEF Send
  <2> HIDE DEF net
  <2>5. tabs' = [tabs EXCEPT ![t].net = net, ![t].step = tabs[t].step]
    BY <1>1, <2>4 DEF Tab
  <2>6. tabs[t].step \in {1, 2}
    BY <1>1 DEF Tab
  <2> QED
    BY <2>2, <2>3, <2>5, <2>6, QuietPut
<1> QED
  BY <1>2, <1>3

\* The tabs after an answer set out to one of them.
WithAnswer(t, n, word) == [tabs EXCEPT ![t].net.token = n, ![t].net.says = word]
WithWord(t, word) == [tabs EXCEPT ![t].net.says = word]

\* An answer on its way changes only the call of the tab.
LEMMA SaidOK ==
    ASSUME SessionTyped, NEW t \in Tabs, NEW n \in Token, NEW word \in {"none", "ok", "no"},
           NEW top \in Nat, n <= top, issued <= top
    PROVE  /\ WithAnswer(t, n, word) \in [Tabs -> Tab]
           /\ \A u \in Tabs : /\ WithAnswer(t, n, word)[u].net.token <= top
                              /\ WithAnswer(t, n, word)[u].nav = tabs[u].nav
<1> DEFINE ts == WithAnswer(t, n, word)
           net == [tabs[t].net EXCEPT !.token = n, !.says = word]
           tab == [tabs[t] EXCEPT !.net = net]
<1>1. /\ tabs \in [Tabs -> Tab] /\ \A u \in Tabs : tabs[u].net.token <= issued
      /\ \A u \in Tabs : tabs[u] \in Tab /\ tabs[u].net \in Net
  BY TabOf DEF SessionTyped, SessionTypeOK
<1>2. net \in Net /\ net.token = n
  BY <1>1 DEF Net
<1>3. ts = [tabs EXCEPT ![t] = tab]
  BY <1>1 DEF Tab, WithAnswer
<1> HIDE DEF net, ts
<1>4. tab \in Tab /\ tab.net = net /\ tab.nav = tabs[t].nav
  BY <1>1, <1>2 DEF Tab
<1> HIDE DEF tab
<1>5. /\ ts \in [Tabs -> Tab] /\ ts[t] = tab
      /\ \A u \in Tabs \ {t} : ts[u] = tabs[u]
  BY <1>1, <1>3, <1>4
<1>6. ASSUME NEW u \in Tabs PROVE ts[u].net.token <= top /\ ts[u].nav = tabs[u].nav
  <2>1. CASE u = t
    BY <1>2, <1>4, <1>5, <2>1
  <2>2. CASE u # t
    <3>1. ts[u] = tabs[u] /\ tabs[u].net.token <= issued
      BY <1>1, <1>5, <2>2
    <3>2. tabs[u].net.token \in Nat /\ issued \in Nat
      BY <1>1, TokenOK DEF Net, Token, SessionTyped
    <3> QED
      BY <3>1, <3>2
  <2> QED
    BY <2>1, <2>2
<1> QED
  BY <1>5, <1>6 DEF ts

\* Only the word of the answer.
LEMMA WordSaid ==
    ASSUME SessionTyped, NEW t \in Tabs, NEW word \in {"none", "ok", "no"}
    PROVE  /\ WithWord(t, word) \in [Tabs -> Tab]
           /\ \A u \in Tabs : /\ WithWord(t, word)[u].net.token <= issued
                              /\ WithWord(t, word)[u].nav = tabs[u].nav
<1>1. /\ tabs \in [Tabs -> Tab] /\ tabs[t] \in Tab /\ tabs[t].net \in Net
      /\ tabs[t].net.token \in Token /\ tabs[t].net.token <= issued
  BY TabOf DEF SessionTyped, SessionTypeOK, Net
<1>2. WithWord(t, word) = WithAnswer(t, tabs[t].net.token, word)
  BY <1>1 DEF Tab, Net, WithWord, WithAnswer
<1>3. issued \in Nat /\ issued <= issued
  BY TokenOK DEF SessionTyped
<1> QED
  BY <1>1, <1>2, <1>3, SaidOK

\* The wizard has installed the system.
LEMMA CreateStep ==
    ASSUME SessionTyped, NEW t \in Tabs, Create(t), installed' = TRUE,
           UNCHANGED <<Browser, moves>>
    PROVE  SessionTyped' /\ SessionInv' /\ \A u \in Tabs : Lands(tabs[u], tabs'[u])
<1> DEFINE ts == WithAnswer(t, issued + 1, "ok")
<1>1. /\ issued \in Nat /\ MaxSessions \in Nat /\ issued < MaxSessions
      /\ issued' = issued + 1 /\ sessions' = sessions \cup {issued + 1}
      /\ tabs' = Unsettled(ts)
  BY TokenOK DEF Create, SessionTyped, WithAnswer
<1>2. issued + 1 \in Token /\ issued + 1 \in Nat /\ issued <= issued + 1
  BY <1>1 DEF Token
<1>3. /\ ts \in [Tabs -> Tab]
      /\ \A u \in Tabs : ts[u].net.token <= issued + 1 /\ ts[u].nav = tabs[u].nav
  BY <1>2, SaidOK
<1> HIDE DEF ts
<1>4. /\ sessions' \subseteq 1..issued' /\ stored' \in 0..issued' /\ cookie' \in 0..issued'
      /\ issued' \in Token
  BY <1>1, <1>2 DEF SessionTyped, SessionTypeOK, Browser
<1>5. moves' \in 0..MaxMoves
  BY DEF SessionTyped, SessionTypeOK
<1> QED
  BY <1>1, <1>3, <1>4, <1>5, AllUnsettled

\* The server says a word and changes, nothing else does.
LEMMA SaysStep ==
    ASSUME SessionTyped, SessionInv, NEW t \in Tabs, NEW word \in {"ok", "no"}, tabs' = Says(t, word),
           installed' \in BOOLEAN, installed => installed', sessions' \subseteq sessions,
           UNCHANGED <<Browser, issued, moves>>
    PROVE  SessionTyped' /\ SessionInv' /\ \A u \in Tabs : Lands(tabs[u], tabs'[u])
<1> DEFINE ts == WithWord(t, word)
<1>1. /\ ts \in [Tabs -> Tab] /\ tabs' = Unsettled(ts)
      /\ \A u \in Tabs : ts[u].net.token <= issued /\ ts[u].nav = tabs[u].nav
  BY WordSaid DEF Says, WithWord
<1> HIDE DEF ts
<1>2. /\ issued' \in Token /\ sessions' \subseteq 1..issued' /\ stored' \in 0..issued'
      /\ cookie' \in 0..issued' /\ moves' \in 0..MaxMoves /\ issued' = issued
  BY DEF SessionTyped, SessionTypeOK, Browser
<1>3. ~installed' => sessions' = {}
  BY DEF SessionInv
<1> QED
  BY <1>1, <1>2, <1>3, AllUnsettled

\* The server answers and does not change.
LEMMA RefusalStep ==
    ASSUME SessionTyped, SessionInv, NEW t \in Tabs, NEW word \in {"ok", "no"},
           tabs' = [tabs EXCEPT ![t].net.says = word], UNCHANGED <<Server, Browser, moves>>
    PROVE  SessionTyped' /\ SessionInv' /\ \A u \in Tabs : Lands(tabs[u], tabs'[u])
<1> DEFINE net == [tabs[t].net EXCEPT !.says = word]
<1>1. /\ tabs[t] \in Tab /\ tabs \in [Tabs -> Tab] /\ tabs[t].net \in Net
      /\ tabs[t].net.token <= issued /\ moves' \in 0..MaxMoves
  BY TabOf DEF SessionTyped, SessionTypeOK
<1>2. net \in Net /\ net.token <= issued
  BY <1>1 DEF Net
<1>3. tabs' = [tabs EXCEPT ![t].net = net]
  BY <1>1 DEF Tab, Net
<1> HIDE DEF net
<1>4. tabs' = [tabs EXCEPT ![t].net = net, ![t].step = tabs[t].step] /\ tabs[t].step \in {1, 2}
  BY <1>1, <1>3 DEF Tab
<1>5. UNCHANGED <<Server, Browser>>
  OBVIOUS
<1> QED
  BY <1>1, <1>2, <1>4, <1>5, QuietPut

\* The server serves the other call of a tab.
LEMMA ServeStep ==
    ASSUME SessionTyped, SessionInv, NEW t \in Tabs, Serve(t)
    PROVE  SessionTyped' /\ SessionInv' /\ \A u \in Tabs : Lands(tabs[u], tabs'[u])
<1> DEFINE net == tabs[t].net
<1>1. UNCHANGED <<Browser, moves>> /\ installed \in BOOLEAN
  BY DEF Serve, SessionTyped, SessionTypeOK
<1>2. CASE installed' = TRUE /\ Create(t)
  BY <1>1, <1>2, CreateStep
<1>3. CASE /\ \E word \in {"ok", "no"} : tabs' = Says(t, word)
           /\ installed' \in BOOLEAN
           /\ installed => installed'
           /\ sessions' \subseteq sessions /\ UNCHANGED issued
  BY <1>1, <1>3, SaysStep
<1>4. CASE /\ \E word \in {"ok", "no"} : tabs' = [tabs EXCEPT ![t].net.says = word]
           /\ UNCHANGED Server
  BY <1>1, <1>4, RefusalStep
<1>5. \/ installed' = TRUE /\ Create(t)
      \/ /\ \E word \in {"ok", "no"} : tabs' = Says(t, word)
         /\ installed' = TRUE /\ UNCHANGED <<sessions, issued>>
      \/ /\ \E word \in {"ok", "no"} : tabs' = Says(t, word)
         /\ UNCHANGED <<installed, issued>> /\ sessions' = sessions \ {net.token}
      \/ /\ \E word \in {"ok", "no"} : tabs' = [tabs EXCEPT ![t].net.says = word]
         /\ UNCHANGED Server
  BY <1>1 DEF Serve
<1> QED
  BY <1>1, <1>2, <1>3, <1>4, <1>5

\* A session lapses: no navigation that relied on it is calm any more.
LEMMA LapseStep ==
    ASSUME SessionTyped, SessionInv, NEW n \in Token, Lapse(n)
    PROVE  SessionTyped' /\ SessionInv' /\ \A u \in Tabs : Lands(tabs[u], tabs'[u])
<1>1. /\ tabs \in [Tabs -> Tab] /\ tabs' = Unsettled(tabs)
      /\ \A u \in Tabs : tabs[u].net.token <= issued
      /\ issued' = issued /\ installed' = installed
  BY TabOf DEF Lapse, SessionTyped, SessionTypeOK
<1>2. /\ issued' \in Token /\ sessions' \subseteq 1..issued' /\ stored' \in 0..issued'
      /\ cookie' \in 0..issued' /\ moves' \in 0..MaxMoves /\ installed' \in BOOLEAN
  BY DEF SessionTyped, SessionTypeOK, Browser, Lapse
<1>3. ~installed' => sessions' = {}
  BY DEF SessionInv, Lapse
<1> QED
  BY <1>1, <1>2, <1>3, AllUnsettled

\* The navigation after a login: calm when the session is still there.
LoginHeads(tab, v, n) == Heads(tab, v, TRUE, n \in sessions)

\* The navigation that a login begins.
LEMMA LoginHeadsOK ==
    ASSUME NEW tab \in Tab, NEW v \in Views, Bearer' \in Token, NEW n
    PROVE  \E new \in Tab :
              /\ new = LoginHeads(tab, v, n) /\ new.net = tab.net
              /\ new.nav.to = v /\ new.nav.token = Bearer' /\ new.nav.says = "none"
              /\ new.nav # NoNav /\ new.hops = 0
              /\ new.calm <=> n \in sessions
<1>1. /\ Leads(v) \in Nav /\ Leads(v).to = v /\ Leads(v).token = Bearer'
      /\ Leads(v).says = "none"
  BY DEF Leads, Nav
<1>2. Leads(v) # NoNav
  BY <1>1 DEF NoNav, Views, NoView
<1> HIDE DEF Leads
<1> DEFINE new == LoginHeads(tab, v, n)
<1>3. new = [tab EXCEPT !.nav = Leads(v), !.hops = 0, !.calm = n \in sessions, !.fresh = TRUE]
  BY DEF Heads, LoginHeads
<1>4. 0 \in 0..3 /\ (n \in sessions) \in BOOLEAN
  OBVIOUS
<1>5. new \in Tab
  BY <1>1, <1>3, <1>4 DEF Tab
<1>6. /\ new.net = tab.net /\ new.nav = Leads(v) /\ new.hops = 0
      /\ new.calm <=> n \in sessions
  BY <1>3 DEF Tab
<1> HIDE DEF new
<1> QED
  BY <1>1, <1>2, <1>5, <1>6 DEF new

\* A login or a logout is answered.
LEMMA AnswerLoginStep ==
    ASSUME SessionTyped, SessionInv, NEW t \in Tabs, AnswerLogin(t) \/ AnswerLogout(t)
    PROVE  SessionTyped' /\ SessionInv' /\ \A u \in Tabs : Lands(tabs[u], tabs'[u])
<1> DEFINE old == [Unsettled(tabs)[t] EXCEPT !.net = NoNet]
           n == tabs[t].net.token
<1>1. /\ Unsettled(tabs) \in [Tabs -> Tab] /\ NoNet \in Net /\ NoNet.token <= issued
      /\ UNCHANGED <<Server, moves>> /\ UNCHANGED issued
  BY UnsettledOK, NoCall DEF SessionTyped, SessionTypeOK, AnswerLogin, AnswerLogout, Server
<1>2. old \in Tab /\ old.net = NoNet
  BY <1>1 DEF Tab
<1>3. /\ n \in 0..issued /\ 0 \in 0..issued /\ 0..issued \subseteq Token
      /\ ~installed => sessions = {}
  BY TabOf, TokenOK DEF SessionTyped, Net, Token, SessionInv
<1> HIDE DEF n
<1>4. CASE AnswerLogin(t)
  <2>1. /\ stored' = n /\ cookie' = n
        /\ tabs' = [Unsettled(tabs) EXCEPT ![t] = LoginHeads(old, "admin", n)]
    BY <1>1, <1>4 DEF LoginHeads, AnswerLogin, SetSession, n
  <2> HIDE DEF old
  <2>2. Bearer' = n /\ Bearer' \in Token /\ "admin" \in Views
    BY <1>3, <2>1 DEF Bearer, Views
  <2>3. PICK tab \in Tab :
           /\ tab = LoginHeads(old, "admin", n) /\ tab.net = old.net
           /\ tab.nav.to = "admin" /\ tab.nav.token = Bearer' /\ tab.nav.says = "none"
           /\ tab.nav # NoNav /\ tab.hops = 0
           /\ tab.calm <=> n \in sessions
    <3> DEFINE w == "admin"
    <3>1. w \in Views
      BY <2>2
    <3> HIDE DEF w
    <3>2. \E tab \in Tab :
             /\ tab = LoginHeads(old, w, n) /\ tab.net = old.net
             /\ tab.nav.to = w /\ tab.nav.token = Bearer' /\ tab.nav.says = "none"
             /\ tab.nav # NoNav /\ tab.hops = 0
             /\ tab.calm <=> n \in sessions
      BY <1>2, <2>2, <3>1, LoginHeadsOK
    <3> QED
      BY <3>2 DEF w
  <2>4. n \in sessions => n # 0 /\ installed
    BY <1>3, TokenOK DEF SessionTyped, SessionTypeOK
  <2>5. tab.calm => /\ tab.nav.to \in Views /\ tab.nav.token = Bearer'
                    /\ tab.nav.says = "none" /\ tab.hops = 0
    BY <2>2, <2>3
  <2>6. tab.calm /\ tab.fresh => /\ tab.nav.to = "admin" /\ stored' # 0
                                 /\ Bearer' \in sessions /\ installed
    BY <2>1, <2>2, <2>3, <2>4
  <2>7. tab.net.token <= issued
    BY <1>1, <1>2, <2>3
  <2>8. tabs' = [Unsettled(tabs) EXCEPT ![t] = tab]
    BY <2>1, <2>3
  <2>9. stored' \in 0..issued /\ cookie' \in 0..issued
    BY <1>3, <2>1
  <2> QED
    BY <1>1, <1>3, <2>3, <2>5, <2>6, <2>7, <2>8, <2>9, BrowserChanged
<1>5. CASE AnswerLogout(t)
  <2>1. /\ stored' = 0 /\ cookie' = 0
        /\ tabs' = [Unsettled(tabs) EXCEPT ![t] = Heads(old, "login", FALSE, TRUE)]
    BY <1>1, <1>5 DEF AnswerLogout, ClearSession
  <2> HIDE DEF old
  <2>a. "login" \in Views /\ TRUE \in BOOLEAN /\ FALSE \in BOOLEAN
    BY DEF Views
  <2> HIDE DEF old
  <2>2. Bearer' \in Token
    BY <1>3, <2>1 DEF Bearer
  <2>3. PICK tab \in Tab :
           /\ tab = Heads(old, "login", FALSE, TRUE) /\ tab.net = old.net
           /\ tab.nav.to = "login" /\ tab.nav.token = Bearer' /\ tab.nav.says = "none"
           /\ tab.nav # NoNav /\ tab.hops = 0 /\ tab.fresh = FALSE
    <3> DEFINE w == "login"
               no == FALSE
               yes == TRUE
               h == Heads(old, w, no, yes)
    <3>1. w \in Views
      BY <2>a
    <3>a. no \in BOOLEAN /\ yes \in BOOLEAN
      OBVIOUS
    <3> HIDE DEF w, no, yes
    <3>2. /\ h \in Tab /\ h.net = old.net /\ h.nav.to = w /\ h.nav.token = Bearer'
          /\ h.nav.says = "none" /\ h.nav # NoNav /\ h.hops = 0
          /\ h.calm = yes /\ h.fresh = no
      BY <1>2, <2>2, <3>1, <3>a, HeadsOK
    <3>3. h.calm = TRUE /\ h.fresh = FALSE
      BY <3>2 DEF no, yes
    <3> HIDE DEF h
    <3>4. PICK tab \in Tab : tab = h
      BY <3>2
    <3> QED
      BY <3>2, <3>3, <3>4 DEF h, w, no, yes
  <2>4. tab.calm => /\ tab.nav.to \in Views /\ tab.nav.token = Bearer'
                    /\ tab.nav.says = "none" /\ tab.hops = 0
    BY <2>3 DEF Views
  <2>5. ~(tab.calm /\ tab.fresh)
    BY <2>3
  <2>6. tab.net.token <= issued
    BY <1>1, <1>2, <2>3
  <2> QED
    BY <1>1, <1>3, <2>1, <2>3, <2>4, <2>5, <2>6, BrowserChanged
<1> QED
  BY <1>4, <1>5

\* Another call is answered.
LEMMA AnswerRestStep ==
    ASSUME SessionTyped, SessionInv, NEW t \in Tabs, AnswerRest(t)
    PROVE  SessionTyped' /\ SessionInv' /\ \A u \in Tabs : Lands(tabs[u], tabs'[u])
<1> DEFINE net == tabs[t].net
           rest == [tabs[t] EXCEPT !.net = NoNet]
           again == [op |-> "test rest", token |-> Bearer, says |-> "none"]
<1>1. /\ tabs[t] \in Tab /\ tabs \in [Tabs -> Tab] /\ tabs[t].step \in {1, 2}
      /\ UNCHANGED <<Server, Browser>> /\ moves' \in 0..MaxMoves
      /\ NoNet \in Net /\ NoNet.token <= issued
  BY TabOf, NoCall DEF SessionTyped, SessionTypeOK, AnswerRest, Tab
<1>2. again \in Net /\ again.token <= issued
  BY CallMade DEF NetOps, TestOps
<1>3. rest \in Tab /\ rest.net = NoNet
  BY <1>1 DEF Tab
<1>4. \/ tabs' = [tabs EXCEPT ![t] = Heads(rest, "login", FALSE, TRUE)]
      \/ tabs' = [tabs EXCEPT ![t] = [rest EXCEPT !.net = again]]
      \/ tabs' = [tabs EXCEPT ![t] = [rest EXCEPT !.step = 2]]
      \/ tabs' = [tabs EXCEPT ![t] = rest]
  BY DEF AnswerRest
<1>5. CASE tabs' = [tabs EXCEPT ![t] = Heads(rest, "login", FALSE, TRUE)]
  <2> HIDE DEF rest
  <2>1. "login" \in Views /\ rest.net.token <= issued
    BY <1>1, <1>3 DEF Views
  <2> QED
    BY <1>1, <1>3, <1>5, <2>1, SetsOut
<1> HIDE DEF again
<1>6. CASE tabs' = [tabs EXCEPT ![t] = [rest EXCEPT !.net = again]]
  <2>1. tabs' = [tabs EXCEPT ![t].net = again, ![t].step = tabs[t].step]
    BY <1>1, <1>6 DEF Tab
  <2> QED
    BY <1>1, <1>2, <2>1, QuietPut
<1>7. CASE tabs' = [tabs EXCEPT ![t] = [rest EXCEPT !.step = 2]]
  <2>1. tabs' = [tabs EXCEPT ![t].net = NoNet, ![t].step = 2] /\ 2 \in {1, 2}
    BY <1>1, <1>7 DEF Tab
  <2> QED
    BY <1>1, <2>1, QuietPut
<1>8. CASE tabs' = [tabs EXCEPT ![t] = rest]
  <2>1. tabs' = [tabs EXCEPT ![t].net = NoNet, ![t].step = tabs[t].step]
    BY <1>1, <1>8 DEF Tab
  <2> QED
    BY <1>1, <2>1, QuietPut
<1> QED
  BY <1>4, <1>5, <1>6, <1>7, <1>8

\* A call fails.
LEMMA FailNetStep ==
    ASSUME SessionTyped, SessionInv, NEW t \in Tabs, FailNet(t)
    PROVE  SessionTyped' /\ SessionInv' /\ \A u \in Tabs : Lands(tabs[u], tabs'[u])
<1>1. /\ tabs[t] \in Tab /\ tabs \in [Tabs -> Tab] /\ tabs[t].step \in {1, 2}
      /\ UNCHANGED <<Server, Browser>> /\ moves' \in 0..MaxMoves
      /\ NoNet \in Net /\ NoNet.token <= issued
  BY TabOf, NoCall DEF SessionTyped, SessionTypeOK, FailNet, Tab
<1>2. tabs' = [tabs EXCEPT ![t].net = NoNet, ![t].step = tabs[t].step]
  BY <1>1 DEF FailNet, Tab
<1> QED
  BY <1>1, <1>2, QuietPut

\* Every step keeps types and invariant, and lets a fresh navigation end in the
\* console only.
LEMMA SessionStep ==
    ASSUME SessionTyped, SessionInv, [SessionNext]_sessionVars
    PROVE  /\ SessionTyped' /\ SessionInv'
           /\ UNCHANGED sessionVars \/ \A u \in Tabs : Lands(tabs[u], tabs'[u])
<1>1. CASE UNCHANGED sessionVars
  BY <1>1 DEF sessionVars, SessionTyped, SessionTypeOK, IssuedOnly, SessionInv, CalmTab,
              Sent, Status, Bearer, Instead, LoggedIn
<1>2. CASE \E n \in Token : Lapse(n)
  BY <1>2, LapseStep
<1>3. ASSUME NEW t \in Tabs,
             \/ \E v \in Views : Follow(t, v) \/ Visit(t, v)
             \/ ServeStatus(t) \/ AnswerStatus(t) \/ FailStatus(t)
             \/ Login(t) \/ Logout(t) \/ LoadPage(t)
             \/ TestDB(t) \/ RunInstall(t) \/ StepBack(t)
             \/ Serve(t) \/ AnswerLogin(t) \/ AnswerLogout(t)
             \/ AnswerRest(t) \/ FailNet(t)
      PROVE  SessionTyped' /\ SessionInv' /\ \A u \in Tabs : Lands(tabs[u], tabs'[u])
  BY <1>3, FollowStep, ServeStatusStep, AnswerStatusStep, FailStatusStep, ClickStep,
     ServeStep, AnswerLoginStep, AnswerRestStep, FailNetStep
<1> QED
  BY <1>1, <1>2, <1>3 DEF SessionNext

\* The types of the way in and out: SessionTypeOK, and no call names a token
\* that was not created.
THEOREM SessionTypeCorrect == SessionSpec => []SessionTypeOK
<1>1. SessionTyped /\ SessionInv /\ [SessionNext]_sessionVars => (SessionTyped /\ SessionInv)'
  BY SessionStep
<1>2. SessionTyped /\ SessionInv => SessionTypeOK
  BY DEF SessionTyped
<1> QED
  BY <1>1, <1>2, SessionStart, PTL DEF SessionSpec

\* The guard of the router sends no navigation round in a circle: after two
\* redirects every status the server can give leaves it where it is.
THEOREM GuardSettles == SessionSpec => []NavigationSettles
<1>1. SessionTyped /\ SessionInv /\ [SessionNext]_sessionVars => (SessionTyped /\ SessionInv)'
  BY SessionStep
<1>2. SessionTyped /\ SessionInv => NavigationSettles
  BY DEF SessionInv, CalmTab, NavigationSettles
<1> QED
  BY <1>1, <1>2, SessionStart, PTL DEF SessionSpec

\* A login ends in the console: its navigation carries the token that was
\* stored first, and the guard lets it through.
THEOREM LoginEndsInConsole == SessionSpec => LoginLands
<1>1. SessionTyped /\ SessionInv /\ [SessionNext]_sessionVars => (SessionTyped /\ SessionInv)'
  BY SessionStep
<1>2. SessionTyped /\ SessionInv /\ [SessionNext]_sessionVars
      => [\A t \in Tabs :
            (tabs[t].fresh /\ tabs[t].calm /\ tabs[t].nav # NoNav /\ tabs'[t].nav = NoNav)
            => tabs'[t].view = "admin"]_sessionVars
  BY SessionStep DEF Lands
<1> QED
  BY <1>1, <1>2, SessionStart, PTL DEF SessionSpec, LoginLands

=============================================================================
