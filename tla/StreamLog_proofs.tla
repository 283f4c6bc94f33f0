--------------------------- MODULE StreamLog_proofs ---------------------------
(***************************************************************************)
(* Proofs about StreamLog, for any number of streams, kinds of tokens and   *)
(* lines: its types, that completed rows are exact, that ended streams are  *)
(* completed and that cleared rows stay away.                               *)
(***************************************************************************)
EXTENDS StreamLog, TLAPS

LEMMA NoUsageType == NoUsage \in Usage
  BY DEF NoUsage, Usage, Null

LEMMA AbsentType == Absent \in Row
  BY BoundAssumption, NoUsageType DEF Absent, Row, Null

LEMMA MergeType ==
    ASSUME NEW u \in Usage, NEW v \in Usage
    PROVE  Merge(u, v) \in Usage
  BY DEF Merge, Usage

\* A row that is completed, or left alone, keeps its type.
LEMMA CompletedType ==
    ASSUME TypeOK, NEW s \in Stream
    PROVE  /\ Completed(s) \in [Stream -> Row]
           /\ \A t \in Stream : t # s => Completed(s)[t] = row[t]
           /\ ~row[s].present => Completed(s) = row
           /\ row[s].present =>
                /\ Completed(s)[s].present /\ Completed(s)[s].final
                /\ Completed(s)[s].first = IF body[s].first # Null THEN body[s].first
                                                                   ELSE row[s].first
                /\ Completed(s)[s].usage = Merge(row[s].usage, body[s].usage)
  <1>1. row[s] \in Row /\ body[s].usage \in Usage /\ body[s].first \in 0..MaxLines
    BY DEF TypeOK, Body
  <1>2. Merge(row[s].usage, body[s].usage) \in Usage
    BY <1>1, MergeType DEF Row
  <1>3. QED
    BY <1>1, <1>2 DEF Completed, TypeOK, Row

\* What a line adds to the body has its type.
LEMMA GatherType ==
    ASSUME TypeOK, NEW s \in Stream, NEW l \in Line, Len(sent[s]) < MaxLines
    PROVE  /\ Gather(s, l) \in Body
           /\ Gather(s, l).pc = body[s].pc /\ Gather(s, l).end = body[s].end
           /\ Gather(s, l).first = IF IsFirst(s, l) THEN Len(sent[s]) + 1 ELSE body[s].first
           /\ Gather(s, l).usage =
                IF l.usage = NoUsage THEN body[s].usage
                ELSE IF s \in Native THEN Merge(body[s].usage, l.usage) ELSE l.usage
  <1>1. body[s] \in Body /\ l.usage \in Usage /\ Len(sent[s]) \in Nat
    BY LineAssumption DEF TypeOK, LineType
  <1>2. Merge(body[s].usage, l.usage) \in Usage
    BY <1>1, MergeType DEF Body
  <1>3. Len(sent[s]) + 1 \in 0..MaxLines
    BY <1>1, BoundAssumption
  <1>4. QED
    BY <1>1, <1>2, <1>3 DEF Gather, Body

\* Every variable keeps its type (logs.rs, messages.rs).
THEOREM StreamTypes == Spec => []TypeOK
  <1>1. Init => TypeOK
    <2> SUFFICES ASSUME Init PROVE TypeOK
      OBVIOUS
    <2>1. row \in [Stream -> Row] /\ \A s \in Stream : row[s] = Absent
      BY AbsentType DEF Init
    <2>2. body \in [Stream -> Body]
      BY NoUsageType, BoundAssumption DEF Init, Body, Null
    <2>3. \A s \in Stream : body[s].pc = "new" /\ body[s].end = "none"
      BY DEF Init
    <2>4. sent \in [Stream -> Seq(Line)] /\ \A s \in Stream : Len(sent[s]) = 0
      BY DEF Init
    <2>5. QED
      BY <2>1, <2>2, <2>3, <2>4, BoundAssumption DEF TypeOK, Absent
  <1>2. TypeOK /\ [Next]_vars => TypeOK'
    <2> SUFFICES ASSUME TypeOK, [Next]_vars PROVE TypeOK'
      OBVIOUS
    <2>1. ASSUME NEW s \in Stream, Poll(s) \/ DropUnpolled(s) PROVE TypeOK'
      <3>1. body[s] \in Body /\ body[s].pc = "ready" /\ body[s].end = "none"
        BY <2>1 DEF Poll, DropUnpolled, TypeOK
      <3>2. PICK p \in {"open", "closed"}, e \in {"none", "unpolled"} :
              /\ body' = [body EXCEPT ![s] = [@ EXCEPT !.pc = p, !.end = e]]
              /\ p = "closed" <=> e # "none"
        <4>1. CASE Poll(s)
          <5>1. body' = [body EXCEPT ![s] = [@ EXCEPT !.pc = "open", !.end = "none"]]
            BY <3>1, <4>1 DEF Poll, Goto, Body, TypeOK
          <5>2. QED
            BY <5>1
        <4>2. CASE DropUnpolled(s)
          BY <4>2 DEF DropUnpolled, EndWith
        <4>3. QED
          BY <2>1, <4>1, <4>2
      <3>3. [body[s] EXCEPT !.pc = p, !.end = e] \in Body
        BY <3>1 DEF Body
      <3>4. row' = row /\ sent' = sent
        BY <2>1 DEF Poll, DropUnpolled
      <3>5. ~row[s].final
        BY <3>1 DEF TypeOK
      <3>6. QED
        BY <3>1, <3>2, <3>3, <3>4, <3>5 DEF TypeOK, Body
    <2>2. ASSUME NEW s \in Stream, NEW l \in Line, Receive(s, l) PROVE TypeOK'
      <3>1. Gather(s, l) \in Body /\ Gather(s, l).pc = body[s].pc
            /\ Gather(s, l).end = body[s].end
        BY <2>2, GatherType DEF Receive
      <3>2. body' \in [Stream -> Body] /\ \A t \in Stream :
              body'[t].pc = body[t].pc /\ body'[t].end = body[t].end
        BY <2>2, <3>1 DEF Receive, TypeOK
      <3>3. sent' \in [Stream -> Seq(Line)] /\ \A t \in Stream : Len(sent'[t]) <= MaxLines
        BY <2>2, BoundAssumption DEF Receive, TypeOK
      <3>4. row' = row
        BY <2>2 DEF Receive
      <3>5. QED
        BY <3>2, <3>3, <3>4 DEF TypeOK
    <2>3. ASSUME NEW s \in Stream, NEW ok \in BOOLEAN, Begin(s, ok) PROVE TypeOK'
      <3>1. body[s].pc = "new" /\ body[s].end = "none"
        BY <2>3 DEF Begin, TypeOK
      <3>2. row' \in [Stream -> Row]
        BY <2>3 DEF Begin, TypeOK, Row
      <3>3. \A t \in Stream : /\ row'[t].final = row[t].final
                              /\ ~row'[t].present => row'[t] = row[t] /\ ~row[t].present
        BY <2>3 DEF Begin, TypeOK, Row
      <3>4. /\ body' \in [Stream -> Body] /\ sent' = sent
            /\ \A t \in Stream : body'[t].end = body[t].end
            /\ \A t \in Stream : body'[t].pc = (IF t = s THEN "ready" ELSE body[t].pc)
        BY <2>3 DEF Begin, Goto, TypeOK, Body
      <3>5. QED
        BY <3>1, <3>2, <3>3, <3>4 DEF TypeOK
    <2>4. ASSUME NEW s \in Stream, NEW ok \in BOOLEAN, NEW e \in {"eof", "error", "hangup"},
                 body[s].pc = "open", sent' = sent,
                 (row' = Completed(s) /\ ok) \/ row' = row,
                 EndWith(s, IF ok THEN e ELSE "fault")
          PROVE  TypeOK'
      <3>1. body' \in [Stream -> Body]
            /\ body'[s].pc = "closed" /\ body'[s].end = (IF ok THEN e ELSE "fault")
            /\ \A t \in Stream : t # s => body'[t] = body[t]
        BY <2>4 DEF EndWith, TypeOK, Body
      <3>2. row' \in [Stream -> Row] /\ \A t \in Stream : t # s => row'[t] = row[t]
        BY <2>4, CompletedType DEF TypeOK
      <3>3. ~row'[s].present => row'[s] = Absent
        BY <2>4, CompletedType DEF TypeOK
      <3>4. row'[s].final => ok
        BY <2>4 DEF TypeOK
      <3>5. QED
        BY <2>4, <3>1, <3>2, <3>3, <3>4 DEF TypeOK
    <2>5. ASSUME NEW s \in Stream, NEW ok \in BOOLEAN, HangUp(s, ok) PROVE TypeOK'
      BY <2>4, <2>5 DEF HangUp
    <2>6. ASSUME NEW s \in Stream, NEW ok \in BOOLEAN, NEW e \in {"eof", "error"},
                 Finish(s, e, ok) PROVE TypeOK'
      BY <2>4, <2>6 DEF Finish
    <2>7. CASE Clear
      <3>1. row' \in [Stream -> Row] /\ \A s \in Stream : row'[s] = Absent
        BY <2>7, AbsentType DEF Clear
      <3>2. QED
        BY <2>7, <3>1 DEF Clear, TypeOK, Absent
    <2>8. CASE Restart
      <3>1. body' \in [Stream -> Body]
        <4>1. ASSUME NEW s \in Stream
              PROVE  [body[s] EXCEPT !.pc = "closed", !.end = "restart"] \in Body
          BY DEF TypeOK, Body
        <4>2. QED
          BY <2>8, <4>1 DEF Restart, TypeOK
      <3>2. \A s \in Stream : body'[s] = body[s] \/
              (body'[s].pc = "closed" /\ body'[s].end = "restart"
               /\ body[s].pc \in {"ready", "open"})
        BY <2>8 DEF Restart, TypeOK, Body
      <3>3. QED
        BY <2>8, <3>1, <3>2 DEF Restart, TypeOK
    <2>9. CASE UNCHANGED vars
      BY <2>9 DEF vars, TypeOK
    <2>10. QED
      BY <2>1, <2>2, <2>3, <2>5, <2>6, <2>7, <2>8, <2>9 DEF Next
  <1>3. QED
    BY <1>1, <1>2, PTL DEF Spec

-----------------------------------------------------------------------------
(* Completed rows are exact. *)

\* What a body has gathered, said of its lines without Max and Min.
FirstSeen(s) ==
    \/ body[s].first = Null /\ Outputs(s) = {}
    \/ /\ body[s].first \in Outputs(s)
       /\ \A j \in Outputs(s) : body[s].first <= j

LastSeen(s, f) ==
    \/ body[s].usage[f] = Null /\ Reports(s, f) = {}
    \/ \E i \in Reports(s, f) : /\ \A j \in Reports(s, f) : j <= i
                                /\ body[s].usage[f] = sent[s][i].usage[f]

Bearing(s) == {i \in DOMAIN sent[s] : sent[s][i].usage # NoUsage}
NewestSeen(s) ==
    \/ body[s].usage = NoUsage /\ Bearing(s) = {}
    \/ \E i \in Bearing(s) : /\ \A j \in Bearing(s) : j <= i
                             /\ body[s].usage = sent[s][i].usage

Gathered(s) ==
    /\ FirstSeen(s)
    /\ IF s \in Native THEN \A f \in Field : LastSeen(s, f) ELSE NewestSeen(s)

\* A row says what its body had gathered when it ended, or nothing.
RowCopies(s) ==
    IF row[s].final
    THEN row[s].first = body[s].first /\ row[s].usage = body[s].usage
    ELSE row[s].first = Null /\ row[s].usage = NoUsage

GatheredRight == \A s \in Stream : Gathered(s) /\ RowCopies(s)

\* The stream with one line more.
LEMMA Appended ==
    ASSUME TypeOK, NEW s \in Stream, NEW l \in Line, Receive(s, l), NEW n, n = Len(sent[s]) + 1
    PROVE  /\ n \in Nat \ {0}
           /\ DOMAIN sent'[s] = 1..n /\ DOMAIN sent[s] = 1..(n - 1)
           /\ sent'[s][n] = l /\ \A i \in 1..(n - 1) : sent'[s][i] = sent[s][i]
           /\ \A t \in Stream : t # s => sent'[t] = sent[t] /\ body'[t] = body[t]
           /\ body'[s] = Gather(s, l) /\ row' = row
  BY DEF Receive, TypeOK

LEMMA FirstKept ==
    ASSUME TypeOK, NEW s \in Stream, NEW l \in Line, Receive(s, l), FirstSeen(s)
    PROVE  FirstSeen(s)'
  <1> DEFINE n == Len(sent[s]) + 1
  <1>1. /\ n \in Nat \ {0}
        /\ DOMAIN sent'[s] = 1..n /\ DOMAIN sent[s] = 1..(n - 1)
        /\ sent'[s][n] = l /\ \A i \in 1..(n - 1) : sent'[s][i] = sent[s][i]
        /\ body'[s] = Gather(s, l)
    BY Appended
  <1>2. body'[s].first = IF IsFirst(s, l) THEN n ELSE body[s].first
    BY <1>1, GatherType DEF Receive
  <1> HIDE DEF n
  <1>3. ASSUME NEW i
        PROVE  i \in Outputs(s)' <=>
                 \/ i \in Outputs(s)
                 \/ i = n /\ IF s \in Native THEN l.delta # "none" ELSE l.delta = "text"
    BY <1>1 DEF Outputs
  <1>4. \A i \in Outputs(s) : i \in 1..(n - 1)
    BY <1>1 DEF Outputs
  <1>5. CASE body[s].first = Null /\ Outputs(s) = {}
    BY <1>1, <1>2, <1>3, <1>5 DEF FirstSeen, IsFirst
  <1>6. CASE body[s].first \in Outputs(s) /\ \A j \in Outputs(s) : body[s].first <= j
    <2>1. body[s].first # Null /\ body'[s].first = body[s].first
      BY <1>1, <1>2, <1>4, <1>6 DEF IsFirst, Null
    <2>2. QED
      BY <1>1, <1>3, <1>4, <1>6, <2>1 DEF FirstSeen
  <1>7. QED
    BY <1>5, <1>6 DEF FirstSeen

LEMMA LastKept ==
    ASSUME TypeOK, NEW s \in Native, NEW l \in Line, Receive(s, l),
           NEW f \in Field, LastSeen(s, f)
    PROVE  LastSeen(s, f)'
  <1> DEFINE n == Len(sent[s]) + 1
  <1>s. s \in Stream
    BY StreamAssumption
  <1>1. /\ n \in Nat \ {0}
        /\ DOMAIN sent'[s] = 1..n /\ DOMAIN sent[s] = 1..(n - 1)
        /\ sent'[s][n] = l /\ \A i \in 1..(n - 1) : sent'[s][i] = sent[s][i]
        /\ body'[s] = Gather(s, l)
    BY <1>s, Appended
  <1>2. body'[s].usage = IF l.usage = NoUsage THEN body[s].usage
                                              ELSE Merge(body[s].usage, l.usage)
    BY <1>s, <1>1, GatherType DEF Receive
  <1>3. body'[s].usage[f] = IF l.usage[f] # Null THEN l.usage[f] ELSE body[s].usage[f]
    BY <1>2 DEF Merge, NoUsage
  <1> HIDE DEF n
  <1>4. ASSUME NEW i
        PROVE  i \in Reports(s, f)' <=> i \in Reports(s, f) \/ (i = n /\ l.usage[f] # Null)
    BY <1>1 DEF Reports
  <1>5. \A i \in Reports(s, f) : i \in 1..(n - 1) /\ sent'[s][i] = sent[s][i]
    BY <1>1 DEF Reports
  <1>6. CASE l.usage[f] # Null
    <2>1. n \in Reports(s, f)' /\ \A j \in Reports(s, f)' : j <= n
      BY <1>1, <1>4, <1>5, <1>6
    <2>2. body'[s].usage[f] = sent'[s][n].usage[f]
      BY <1>1, <1>3, <1>6
    <2>3. QED
      BY <2>1, <2>2 DEF LastSeen
  <1>7. CASE l.usage[f] = Null
    <2>1. Reports(s, f)' = Reports(s, f)
      BY <1>4, <1>7
    <2>2. QED
      BY <1>3, <1>5, <1>7, <2>1 DEF LastSeen
  <1>8. QED
    BY <1>6, <1>7

LEMMA NewestKept ==
    ASSUME TypeOK, NEW s \in Stream, s \notin Native, NEW l \in Line, Receive(s, l),
           NewestSeen(s)
    PROVE  NewestSeen(s)'
  <1> DEFINE n == Len(sent[s]) + 1
  <1>1. /\ n \in Nat \ {0}
        /\ DOMAIN sent'[s] = 1..n /\ DOMAIN sent[s] = 1..(n - 1)
        /\ sent'[s][n] = l /\ \A i \in 1..(n - 1) : sent'[s][i] = sent[s][i]
        /\ body'[s] = Gather(s, l)
    BY Appended
  <1>2. body'[s].usage = IF l.usage = NoUsage THEN body[s].usage ELSE l.usage
    BY <1>1, GatherType DEF Receive
  <1> HIDE DEF n
  <1>4. ASSUME NEW i
        PROVE  i \in Bearing(s)' <=> i \in Bearing(s) \/ (i = n /\ l.usage # NoUsage)
    BY <1>1 DEF Bearing
  <1>5. \A i \in Bearing(s) : i \in 1..(n - 1) /\ sent'[s][i] = sent[s][i]
    BY <1>1 DEF Bearing
  <1>6. CASE l.usage # NoUsage
    <2>1. n \in Bearing(s)' /\ \A j \in Bearing(s)' : j <= n
      BY <1>1, <1>4, <1>5, <1>6
    <2>2. body'[s].usage = sent'[s][n].usage
      BY <1>1, <1>2, <1>6
    <2>3. QED
      BY <2>1, <2>2 DEF NewestSeen
  <1>7. CASE l.usage = NoUsage
    <2>1. Bearing(s)' = Bearing(s)
      BY <1>4, <1>7
    <2>2. QED
      BY <1>2, <1>5, <1>7, <2>1 DEF NewestSeen
  <1>8. QED
    BY <1>6, <1>7

\* While nothing is read, what was gathered stays true.
LEMMA GatheredStays ==
    ASSUME NEW s \in Stream, Gathered(s), sent'[s] = sent[s],
           body'[s].first = body[s].first, body'[s].usage = body[s].usage
    PROVE  Gathered(s)'
  BY DEF Gathered, FirstSeen, LastSeen, NewestSeen, Outputs, Reports, Bearing

\* A row completed now copies its body.
LEMMA CompletedCopies ==
    ASSUME TypeOK, NEW s \in Stream, row[s].present, ~row[s].final, RowCopies(s)
    PROVE  /\ Completed(s)[s].first = body[s].first
           /\ Completed(s)[s].usage = body[s].usage
  <1>1. row[s].first = Null /\ row[s].usage = NoUsage
    BY DEF RowCopies
  <1>2. Merge(NoUsage, body[s].usage) = body[s].usage
    BY DEF TypeOK, Body, Usage, Merge, NoUsage
  <1>3. QED
    BY <1>1, <1>2, CompletedType

LEMMA GatheredRightHolds == Spec => []GatheredRight
  <1>1. Init => GatheredRight
    BY DEF Init, GatheredRight, Gathered, FirstSeen, LastSeen, NewestSeen, RowCopies,
           Outputs, Reports, Bearing, Absent, NoUsage
  <1>2. TypeOK /\ GatheredRight /\ [Next]_vars => GatheredRight'
    <2> SUFFICES ASSUME TypeOK, GatheredRight, [Next]_vars, NEW t \in Stream
                 PROVE  Gathered(t)' /\ RowCopies(t)'
      BY DEF GatheredRight
    <2>t. /\ Gathered(t) /\ RowCopies(t) /\ body[t] \in Body /\ row[t] \in Row
          /\ (row[t].final => body[t].pc = "closed")
      BY DEF GatheredRight, TypeOK
    <2>1. ASSUME NEW s \in Stream, NEW l \in Line, Receive(s, l)
          PROVE  Gathered(t)' /\ RowCopies(t)'
      <3>1. CASE t = s
        <4>1. ~row[s].final /\ row' = row
          BY <2>1, <2>t, <3>1 DEF Receive
        <4>2. Gathered(s)'
          BY <2>1, <2>t, <3>1, FirstKept, LastKept, NewestKept DEF Gathered
        <4>3. QED
          BY <2>t, <3>1, <4>1, <4>2 DEF RowCopies
      <3>2. CASE t # s
        <4>1. sent'[t] = sent[t] /\ body'[t] = body[t] /\ row' = row
          BY <2>1, <3>2, Appended
        <4>2. QED
          BY <2>t, <4>1, GatheredStays DEF RowCopies
      <3>3. QED
        BY <3>1, <3>2
    <2>2. ASSUME sent' = sent, row' = row,
                 \A s \in Stream : body'[s].first = body[s].first
                                   /\ body'[s].usage = body[s].usage
          PROVE  Gathered(t)' /\ RowCopies(t)'
      BY <2>2, <2>t, GatheredStays DEF RowCopies
    <2>3. ASSUME NEW s \in Stream, Poll(s) \/ DropUnpolled(s)
          PROVE  Gathered(t)' /\ RowCopies(t)'
      <3>1. \A u \in Stream : body'[u].first = body[u].first
                              /\ body'[u].usage = body[u].usage
        <4>1. CASE Poll(s)
          BY <4>1 DEF Poll, Goto, TypeOK, Body
        <4>2. CASE DropUnpolled(s)
          BY <4>2 DEF DropUnpolled, EndWith, TypeOK, Body
        <4>3. QED
          BY <2>3, <4>1, <4>2
      <3>2. QED
        BY <2>2, <2>3, <3>1 DEF Poll, DropUnpolled
    <2>4. ASSUME NEW s \in Stream, NEW ok \in BOOLEAN, Begin(s, ok)
          PROVE  Gathered(t)' /\ RowCopies(t)'
      <3>1. sent' = sent /\ body'[t].first = body[t].first
            /\ body'[t].usage = body[t].usage
        BY <2>4 DEF Begin, Goto, TypeOK, Body
      <3>2. /\ row'[t].final = row[t].final /\ row'[t].first = row[t].first
            /\ row'[t].usage = row[t].usage
        BY <2>4 DEF Begin, TypeOK, Row
      <3>3. QED
        BY <2>t, <3>1, <3>2, GatheredStays DEF RowCopies
    <2>5. ASSUME NEW s \in Stream, body[s].pc = "open", sent' = sent,
                 row' = Completed(s) \/ row' = row, NEW e, EndWith(s, e)
          PROVE  Gathered(t)' /\ RowCopies(t)'
      <3>1. body'[t].first = body[t].first /\ body'[t].usage = body[t].usage
        BY <2>5 DEF EndWith, TypeOK, Body
      <3>2. Gathered(t)'
        BY <2>5, <2>t, <3>1, GatheredStays
      <3>3. CASE row'[t] = row[t]
        BY <2>t, <3>1, <3>2, <3>3 DEF RowCopies
      <3>4. CASE row' = Completed(s) /\ t = s /\ row[s].present
        <4>1. ~row[s].final
          BY <2>5, <2>t, <3>4
        <4>2. row'[t].final /\ row'[t].first = body[t].first
              /\ row'[t].usage = body[t].usage
          BY <2>t, <3>4, <4>1, CompletedCopies, CompletedType
        <4>3. QED
          BY <3>1, <3>2, <4>2 DEF RowCopies
      <3>5. QED
        BY <2>5, <3>2, <3>3, <3>4, CompletedType
    <2>6. ASSUME NEW s \in Stream, NEW ok \in BOOLEAN,
                 HangUp(s, ok) \/ \E e \in {"eof", "error"} : Finish(s, e, ok)
          PROVE  Gathered(t)' /\ RowCopies(t)'
      BY <2>5, <2>6 DEF HangUp, Finish
    <2>7. CASE Clear
      <3>1. body' = body /\ sent' = sent /\ row'[t] = Absent
        BY <2>7 DEF Clear
      <3>2. Gathered(t)'
        BY <2>t, <3>1, GatheredStays
      <3>3. RowCopies(t)'
        BY <3>1 DEF RowCopies, Absent
      <3>4. QED
        BY <3>2, <3>3
    <2>8. CASE Restart
      <3>1. \A u \in Stream : body'[u].first = body[u].first
                              /\ body'[u].usage = body[u].usage
        BY <2>8 DEF Restart, TypeOK, Body
      <3>2. QED
        BY <2>2, <2>8, <3>1 DEF Restart
    <2>9. CASE UNCHANGED vars
      BY <2>2, <2>9 DEF vars
    <2>10. QED
      BY <2>1, <2>3, <2>4, <2>6, <2>7, <2>8, <2>9 DEF Next
  <1>3. QED
    BY <1>1, <1>2, StreamTypes, PTL DEF Spec

\* Max and Min of a set that has one.
LEMMA MaxIs ==
    ASSUME NEW S \in SUBSET Nat, NEW i \in S, \A j \in S : j <= i
    PROVE  Max(S) = i
  <1>1. \E m \in S : \A j \in S : m >= j
    OBVIOUS
  <1> DEFINE m == Max(S)
  <1>2. m \in S /\ \A j \in S : m >= j
    BY <1>1 DEF Max
  <1> HIDE DEF m
  <1>3. m = i
    BY <1>2
  <1>4. QED
    BY <1>3 DEF m
LEMMA MinIs ==
    ASSUME NEW S \in SUBSET Nat, NEW i \in S, \A j \in S : i <= j
    PROVE  Min(S) = i
  <1>1. \E m \in S : \A j \in S : m <= j
    OBVIOUS
  <1> DEFINE m == Min(S)
  <1>2. m \in S /\ \A j \in S : m <= j
    BY <1>1 DEF Min
  <1> HIDE DEF m
  <1>3. m = i
    BY <1>2
  <1>4. QED
    BY <1>3 DEF m

\* A completed row has the last count of each kind and the first output's time:
\* the scanners of logs.rs and messages.rs, finalize_stream_log.
THEOREM RowsAreExact == Spec => []CompletedRowIsExact
  <1>1. TypeOK /\ GatheredRight => CompletedRowIsExact
    <2> SUFFICES ASSUME TypeOK, GatheredRight, NEW s \in Stream, row[s].final
                 PROVE  /\ row[s].first = FirstOutput(s)
                        /\ s \in Native \/ Cumulative(s) => row[s].usage = LastTold(s)
      BY DEF CompletedRowIsExact
    <2>1. /\ row[s].first = body[s].first /\ row[s].usage = body[s].usage
          /\ Gathered(s) /\ body[s].usage \in Usage
          /\ DOMAIN sent[s] \subseteq Nat
      BY DEF GatheredRight, RowCopies, TypeOK, Body
    <2>2. row[s].first = FirstOutput(s)
      <3>1. Outputs(s) \in SUBSET Nat
        BY <2>1 DEF Outputs
      <3>2. QED
        BY <2>1, <3>1, MinIs DEF Gathered, FirstSeen, FirstOutput
    <2>3. ASSUME s \in Native \/ Cumulative(s), NEW f \in Field
          PROVE  LastSeen(s, f)
      <3>1. CASE s \in Native
        BY <2>1, <3>1 DEF Gathered
      <3>2. CASE s \notin Native /\ body[s].usage = NoUsage /\ Bearing(s) = {}
        BY <3>2 DEF LastSeen, Reports, Bearing, NoUsage
      <3>3. ASSUME s \notin Native, NEW i \in Bearing(s),
                   \A j \in Bearing(s) : j <= i, body[s].usage = sent[s][i].usage
            PROVE  LastSeen(s, f)
        <4>1. \A j \in Reports(s, f) : j \in Bearing(s) /\ j <= i
          BY <3>3 DEF Reports, Bearing, NoUsage
        <4>2. Reports(s, f) # {} => i \in Reports(s, f)
          <5> SUFFICES ASSUME NEW j \in Reports(s, f) PROVE i \in Reports(s, f)
            OBVIOUS
          <5>1. j <= i /\ j \in Nat /\ i \in Nat /\ i \in DOMAIN sent[s] /\ j \in DOMAIN sent[s]
            BY <2>1, <4>1 DEF Bearing, Reports
          <5>2. j < i => i \in Reports(s, f)
            BY <2>3, <3>3, <5>1 DEF Cumulative, Bearing
          <5>3. QED
            BY <5>1, <5>2
        <4>3. QED
          BY <3>3, <4>1, <4>2 DEF LastSeen, Reports, Bearing
      <3>4. QED
        BY <2>1, <3>1, <3>2, <3>3 DEF Gathered, NewestSeen
    <2>4. ASSUME s \in Native \/ Cumulative(s) PROVE row[s].usage = LastTold(s)
      <3>1. ASSUME NEW f \in Field PROVE body[s].usage[f] = LastTold(s)[f]
        <4>1. Reports(s, f) \in SUBSET Nat
          BY <2>1 DEF Reports
        <4>2. QED
          BY <2>3, <2>4, <4>1, MaxIs DEF LastSeen, LastTold
      <3>2. QED
        BY <2>1, <3>1 DEF LastTold, Usage
    <2>5. QED
      BY <2>2, <2>4
  <1>2. QED
    BY <1>1, StreamTypes, GatheredRightHolds, PTL

-----------------------------------------------------------------------------
(* Ended streams and cleared rows. *)

\* A stream of proxy.rs that has begun and ended has completed its row, if there
\* is one: the guard's destructor (logs.rs:336).
THEOREM EndedStreamsComplete == Spec => []EndedStreamIsComplete
  <1>1. Init => EndedStreamIsComplete
    BY StreamAssumption DEF Init, EndedStreamIsComplete
  <1>2. TypeOK /\ EndedStreamIsComplete /\ [Next]_vars => EndedStreamIsComplete'
    <2> SUFFICES ASSUME TypeOK, EndedStreamIsComplete, [Next]_vars,
                        NEW t \in Native, body'[t].end \in {"eof", "error", "hangup"},
                        row'[t].present
                 PROVE  row'[t].final
      BY DEF EndedStreamIsComplete
    <2>t. t \in Stream /\ body[t] \in Body /\ row[t] \in Row
          /\ (body[t].end \in {"eof", "error", "hangup"} /\ row[t].present => row[t].final)
          /\ (body[t].end = "none" <=> body[t].pc # "closed")
      BY StreamAssumption DEF EndedStreamIsComplete, TypeOK, Body
    <2>1. ASSUME NEW s \in Stream, Poll(s) \/ DropUnpolled(s) PROVE row'[t].final
      <3>1. row' = row /\ (body'[t].end = body[t].end \/ body'[t].end = "unpolled")
        <4>1. CASE Poll(s)
          BY <4>1, <2>t DEF Poll, Goto, TypeOK, Body
        <4>2. CASE DropUnpolled(s)
          BY <4>2, <2>t DEF DropUnpolled, EndWith, TypeOK, Body
        <4>3. QED
          BY <2>1, <4>1, <4>2
      <3>2. QED
        BY <2>t, <3>1
    <2>2. ASSUME NEW s \in Stream, NEW l \in Line, Receive(s, l) PROVE row'[t].final
      <3>1. row' = row /\ body'[t].end = body[t].end
        BY <2>2, GatherType DEF Receive, TypeOK
      <3>2. QED
        BY <2>t, <3>1
    <2>3. ASSUME NEW s \in Stream, NEW ok \in BOOLEAN, Begin(s, ok) PROVE row'[t].final
      <3>1. body'[t].end = body[t].end /\ (t = s => body[t].end = "none")
        BY <2>3, <2>t DEF Begin, Goto, TypeOK, Body
      <3>2. t # s /\ row'[t] = row[t]
        BY <2>3, <2>t, <3>1 DEF Begin, TypeOK
      <3>3. QED
        BY <2>t, <3>1, <3>2
    <2>4. ASSUME NEW s \in Stream, NEW ok \in BOOLEAN, NEW e \in {"eof", "error", "hangup"},
                 s \in Native /\ ok => row' = Completed(s),
                 row' = Completed(s) \/ row' = row,
                 EndWith(s, IF ok THEN e ELSE "fault")
          PROVE  row'[t].final
      <3>1. CASE t # s
        <4>1. row'[t] = row[t] /\ body'[t] = body[t]
          BY <2>4, <2>t, <3>1, CompletedType DEF EndWith, TypeOK
        <4>2. QED
          BY <2>t, <4>1
      <3>2. CASE t = s
        <4>1. body'[s].end = IF ok THEN e ELSE "fault"
          BY <2>4, <2>t, <3>2 DEF EndWith, TypeOK, Body
        <4>2. ok /\ row' = Completed(s)
          <5>1. ok
            BY <3>2, <4>1
          <5>2. QED
            BY <2>4, <3>2, <5>1
        <4>3. QED
          BY <3>2, <4>2, CompletedType
      <3>3. QED
        BY <3>1, <3>2
    <2>5. ASSUME NEW s \in Stream, NEW ok \in BOOLEAN, HangUp(s, ok) PROVE row'[t].final
      BY <2>4, <2>5 DEF HangUp
    <2>6. ASSUME NEW s \in Stream, NEW ok \in BOOLEAN, NEW e \in {"eof", "error"},
                 Finish(s, e, ok) PROVE row'[t].final
      BY <2>4, <2>6 DEF Finish
    <2>7. CASE Clear
      BY <2>7, <2>t DEF Clear, Absent
    <2>8. CASE Restart
      <3>1. row' = row /\ (body'[t] = body[t] \/ body'[t].end = "restart")
        BY <2>8, <2>t DEF Restart, Body
      <3>2. QED
        BY <2>t, <3>1
    <2>9. CASE UNCHANGED vars
      BY <2>9, <2>t DEF vars
    <2>10. QED
      BY <2>1, <2>2, <2>3, <2>5, <2>6, <2>7, <2>8, <2>9 DEF Next
  <1>3. QED
    BY <1>1, <1>2, StreamTypes, PTL DEF Spec

\* No step brings a row back that was cleared or never inserted: every write of
\* a body that runs is an UPDATE (db.rs:892).
THEOREM ClearedRowsStayAway == Spec => ClearedRowStaysAway
  <1> DEFINE Away == \A s \in Stream :
               body[s].pc # "new" /\ ~row[s].present => ~row'[s].present
  <1>1. TypeOK /\ [Next]_vars => [Away]_vars
    <2> SUFFICES ASSUME TypeOK, Next, NEW t \in Stream, body[t].pc # "new", ~row[t].present
                 PROVE  ~row'[t].present
      OBVIOUS
    <2>1. ASSUME row' = row PROVE ~row'[t].present
      BY <2>1
    <2>2. ASSUME NEW s \in Stream, NEW ok \in BOOLEAN, Begin(s, ok) PROVE ~row'[t].present
      <3>1. t # s
        BY <2>2 DEF Begin
      <3>2. QED
        BY <2>2, <3>1 DEF Begin, TypeOK
    <2>3. ASSUME NEW s \in Stream, row' = Completed(s) PROVE ~row'[t].present
      BY <2>3, CompletedType
    <2>4. ASSUME NEW s \in Stream, NEW ok \in BOOLEAN,
                 HangUp(s, ok) \/ \E e \in {"eof", "error"} : Finish(s, e, ok)
          PROVE  ~row'[t].present
      BY <2>1, <2>3, <2>4 DEF HangUp, Finish
    <2>5. ASSUME NEW s \in Stream, Poll(s) \/ DropUnpolled(s) \/ \E l \in Line : Receive(s, l)
          PROVE  ~row'[t].present
      BY <2>1, <2>5 DEF Poll, DropUnpolled, Receive
    <2>6. CASE Clear
      BY <2>6 DEF Clear, Absent
    <2>7. CASE Restart
      BY <2>1, <2>7 DEF Restart
    <2>8. QED
      BY <2>2, <2>4, <2>5, <2>6, <2>7 DEF Next
  <1>2. QED
    BY <1>1, StreamTypes, PTL DEF Spec, ClearedRowStaysAway

=============================================================================
