------------------------ MODULE SharedParser_proofs ------------------------
(***************************************************************************)
(* What holds of a parser that any number of processes share, however      *)
(* their calls interleave and whoever is killed or panics.                 *)
(***************************************************************************)
EXTENDS SharedParser, CsvText_proofs

-----------------------------------------------------------------------------
(* Rows that have ended, and their names. *)

(* A row that has ended stays ended. *)
LEMMA EndsGrow ==
    ASSUME NEW s \in Seq(Byte), NEW c \in Seq(Byte)
    PROVE  Cardinality(RowEnds(s)) <= Cardinality(RowEnds(s \o c))
<1>1. s \o c \in Seq(Byte) /\ Len(s \o c) = Len(s) + Len(c)
      /\ \A i \in 1..Len(s) : (s \o c)[i] = s[i]
  BY ConcatProperties
<1>2. ASSUME NEW i \in RowEnds(s) PROVE i \in RowEnds(s \o c)
  <2>1. i \in 1..Len(s) /\ s[i] = LF /\ ~Quoted(s, i)
    BY DEF RowEnds
  <2>2. Quoted(s \o c, i) = Quoted(s, i)
    BY <2>1, ParityPrefix
  <2>3. i \in 1..Len(s \o c)
    BY <1>1, <2>1
  <2>4. QED
    BY <1>1, <2>1, <2>2, <2>3 DEF RowEnds
<1>3. RowEnds(s) \subseteq RowEnds(s \o c)
  BY <1>2
<1>4. QED
  BY <1>1, <1>3, RowEndsFinite, FS_Subset

LEMMA CountTypes ==
    ASSUME text \in Seq(Byte)
    PROVE  Ended \in Nat /\ All \in Nat /\ Ended <= All
<1>1. Ended \in Nat
  BY RowEndsFinite DEF Ended
<1>2. All = Ended \/ All = Ended + 1
  BY DEF All
<1>3. QED
  BY <1>1, <1>2

Name == Nat \X Nat

LEMMA NamesOfRows ==
    ASSUME taken \in Nat, finished \in Seq(Nat), NEW last \in Nat, taken <= last
    PROVE  /\ NamesUpTo(last) \in Seq(Name)
           /\ Len(NamesUpTo(last)) = last - taken
           /\ \A k \in 1..last - taken : NamesUpTo(last)[k] = <<epoch, taken + k>>
           /\ epoch \in Nat
<1>1. epoch \in Nat /\ last - taken \in Nat
  BY DEF epoch
<1>2. \A k \in 1..last - taken : <<epoch, taken + k>> \in Name
  BY <1>1 DEF Name
<1> DEFINE m == last - taken
<1> HIDE DEF m
<1>3. NamesUpTo(last) = [k \in 1..m |-> <<epoch, taken + k>>]
  BY DEF NamesUpTo, m
<1>4. m \in Nat /\ \A k \in 1..m : <<epoch, taken + k>> \in Name
  BY <1>1, <1>2 DEF m
<1>5. NamesUpTo(last) \in Seq(Name)
  <2>1. NamesUpTo(last) \in [1..m -> Name]
    BY <1>3, <1>4
  <2>2. QED
    BY <1>4, <2>1
<1>6. Len(NamesUpTo(last)) = m /\ \A k \in 1..m : NamesUpTo(last)[k] = <<epoch, taken + k>>
  BY <1>3, <1>4
<1>7. QED
  BY <1>1, <1>5, <1>6 DEF m

LEMMA RequestTypes ==
    ASSUME NEW r \in Requests \cup {NoCall}
    PROVE  /\ r.op = "next_rows" => r.max \in Nat
           /\ r.op = "feed" => r.chunk \in Seq(Byte)
<1>1. CASE r \in FeedCalls
  BY <1>1, ClientAssumption DEF FeedCalls
<1>2. CASE r \in NextRowsCalls
  BY <1>2, ClientAssumption DEF NextRowsCalls
<1>3. CASE r \in OtherCalls \cup {NoCall}
  BY <1>3 DEF OtherCalls, NoCall
<1>4. QED
  BY <1>1, <1>2, <1>3 DEF Requests

(* What a call reads are the names of the rows after those taken, up to    *)
(* some row.                                                               *)
LEMMA RowsOfCall ==
    ASSUME TypeOK, NEW request \in Requests \cup {NoCall}
    PROVE  \/ RowsFor(request) = <<>>
           \/ \E last \in taken..All : RowsFor(request) = NamesUpTo(last)
<1>1. /\ taken \in Nat /\ Ended \in Nat /\ All \in Nat /\ taken <= Ended /\ Ended <= All
  BY CountTypes DEF TypeOK
<1>2. CASE request.op = "next_rows"
  <2>1. request.max \in Nat
    BY <1>2, RequestTypes
  <2>2. (IF taken + request.max < Ended THEN taken + request.max ELSE Ended) \in taken..All
    BY <1>1, <2>1
  <2>3. QED
    BY <1>2, <2>2 DEF RowsFor, FirstNames
<1>3. CASE request.op # "next_rows"
  <2>1. Ended \in taken..All /\ All \in taken..All
    BY <1>1
  <2>2. QED
    BY <1>3, <2>1 DEF RowsFor
<1>4. QED
  BY <1>2, <1>3

-----------------------------------------------------------------------------
(* The lock. *)

HistoryOK ==
    /\ strict \in BOOLEAN
    /\ seen \in [Clients -> Seq(Name)]
    /\ given \in [Clients -> Seq(Name)]
    /\ dropped \subseteq Name

(* Who reads or acts holds the mutex; nobody does once it is poisoned. *)
LockOK ==
    /\ \A c \in Clients : pc[c] \in {"locked", "acting"} <=> holder = c
    /\ poisoned => holder = Nobody

LockInv == TypeOK /\ HistoryOK /\ LockOK /\ ActsOnWhatItRead

LEMMA SeenTypes ==
    ASSUME LockInv, NEW c \in Clients
    PROVE  RowsFor(call[c]) \in Seq(Name)
<1>1. call[c] \in Requests \cup {NoCall}
  BY DEF LockInv, TypeOK
<1>2. <<>> \in Seq(Name)
  OBVIOUS
<1>3. /\ taken \in Nat /\ finished \in Seq(Nat) /\ All \in Nat
  BY CountTypes DEF LockInv, TypeOK
<1>4. CASE RowsFor(call[c]) = <<>>
  BY <1>2, <1>4
<1>5. ASSUME NEW last \in taken..All, RowsFor(call[c]) = NamesUpTo(last)
      PROVE  RowsFor(call[c]) \in Seq(Name)
  <2>1. last \in Nat /\ taken <= last
    BY <1>3
  <2>2. QED
    BY <1>3, <1>5, <2>1, NamesOfRows
<1>6. QED
  BY <1>1, <1>4, <1>5, RowsOfCall DEF LockInv

LEMMA LockInit == Init => LockInv
<1> SUFFICES ASSUME Init PROVE LockInv
  OBVIOUS
<1>1. RowEnds(text) = {}
  BY DEF Init, RowEnds
<1>2. Ended = 0
  BY <1>1, FS_EmptySet DEF Ended
<1>3. TypeOK
  <2>1. text \in Seq(Byte) /\ finished \in Seq(Nat) /\ taken \in 0..Ended /\ calls \in 0..MaxCalls
    BY <1>2, ClientAssumption DEF Init
  <2>2. QED
    BY <2>1 DEF Init, TypeOK
<1>4. HistoryOK
  BY DEF Init, HistoryOK
<1>5. LockOK
  BY ClientAssumption DEF Init, LockOK
<1>6. ActsOnWhatItRead
  BY DEF Init, ActsOnWhatItRead
<1>7. QED
  BY <1>3, <1>4, <1>5, <1>6 DEF LockInv

(* What a call has read still holds while the parser does not change. *)
LEMMA ReadStillHolds ==
    ASSUME LockInv, UNCHANGED <<parserVars, finished>>,
           NEW d \in Clients, pc[d] = "acting", call'[d] = call[d], seen'[d] = seen[d]
    PROVE  seen'[d] = RowsFor(call[d])' /\ (call'[d].op = "next_rows" => ~Refused(FALSE)')
<1>1. text' = text /\ taken' = taken /\ strict' = strict /\ finished' = finished
  BY DEF parserVars
<1>2. RowsFor(call[d])' = RowsFor(call[d])
  BY <1>1 DEF RowsFor, FirstNames, NamesUpTo, Ended, All, epoch
<1>3. Refused(FALSE)' <=> Refused(FALSE)
  BY <1>1 DEF Refused
<1>4. seen[d] = RowsFor(call[d]) /\ (call[d].op = "next_rows" => ~Refused(FALSE))
  BY DEF LockInv, ActsOnWhatItRead
<1>5. QED
  BY <1>2, <1>3, <1>4

LEMMA SameCount ==
    ASSUME TypeOK, UNCHANGED parserVars
    PROVE  taken' \in 0..Ended' /\ text' \in Seq(Byte)
BY DEF TypeOK, parserVars, Ended

(* A call returns: what it read is forgotten, and the mutex is free. *)
LEMMA LeaveKeeps ==
    ASSUME LockInv, NEW c \in Clients, Leave(c),
           pc[c] \in {"waiting", "locked", "acting"},
           poisoned' \in BOOLEAN, poisoned => poisoned',
           poisoned' => poisoned \/ holder = c,
           text' \in Seq(Byte), taken' \in 0..Ended', finished' \in Seq(Nat), strict' = strict,
           given' \in [Clients -> Seq(Name)], dropped' \subseteq Name,
           pc[c] = "waiting" => UNCHANGED <<parserVars, finished>>
    PROVE  LockInv'
<1> USE DEF LockInv
<1>1. /\ pc' = [pc EXCEPT ![c] = "ready"] /\ call' = [call EXCEPT ![c] = NoCall]
      /\ seen' = [seen EXCEPT ![c] = <<>>] /\ calls' = calls /\ alive' = alive
      /\ holder' = IF holder = c THEN Nobody ELSE holder
  BY DEF Leave, Unlock
<1>2. TypeOK'
  BY <1>1, Zenon DEF TypeOK
<1>3. HistoryOK'
  <2>1. seen' \in [Clients -> Seq(Name)]
    BY <1>1 DEF HistoryOK
  <2>2. QED
    BY <2>1 DEF HistoryOK
<1>4. LockOK'
  BY <1>1, ClientAssumption DEF LockOK, TypeOK
<1>5. ASSUME NEW d \in Clients, pc'[d] = "acting"
      PROVE  seen'[d] = RowsFor(call[d])' /\ (call'[d].op = "next_rows" => ~Refused(FALSE)')
  <2>1. d # c /\ pc[d] = "acting" /\ seen'[d] = seen[d] /\ call'[d] = call[d]
    BY <1>1, <1>5 DEF TypeOK, HistoryOK
  <2>2. pc[c] = "waiting"
    BY <2>1 DEF LockOK
  <2>3. UNCHANGED <<parserVars, finished>>
    BY <2>2
  <2>4. QED
    BY <2>1, <2>3, ReadStillHolds
<1>6. ActsOnWhatItRead'
  BY <1>5 DEF ActsOnWhatItRead
<1>7. QED
  BY <1>2, <1>3, <1>4, <1>6

LEMMA InvokeKeeps ==
    ASSUME LockInv, NEW c \in Clients, NEW request \in Requests, Invoke(c, request)
    PROVE  LockInv'
<1> USE DEF LockInv
<1>1. /\ pc[c] = "ready" /\ calls < MaxCalls /\ calls' = calls + 1
      /\ call' = [call EXCEPT ![c] = request] /\ pc' = [pc EXCEPT ![c] = "waiting"]
      /\ UNCHANGED <<parserVars, holder, poisoned, seen, alive, finished, given, dropped>>
  BY DEF Invoke
<1>2. TypeOK'
  <2>1. taken' \in 0..Ended' /\ text' \in Seq(Byte)
    BY <1>1, SameCount
  <2>2. calls' \in 0..MaxCalls
    BY <1>1, ClientAssumption DEF TypeOK
  <2>3. QED
    BY <1>1, <2>1, <2>2 DEF TypeOK
<1>3. HistoryOK'
  BY <1>1 DEF HistoryOK, parserVars
<1>4. LockOK'
  BY <1>1 DEF LockOK, TypeOK
<1>5. ASSUME NEW d \in Clients, pc'[d] = "acting"
      PROVE  seen'[d] = RowsFor(call[d])' /\ (call'[d].op = "next_rows" => ~Refused(FALSE)')
  <2>1. pc[d] = "acting" /\ seen'[d] = seen[d] /\ call'[d] = call[d]
    BY <1>1, <1>5 DEF TypeOK
  <2>2. QED
    BY <1>1, <2>1, ReadStillHolds
<1>6. QED
  BY <1>2, <1>3, <1>4, <1>5 DEF ActsOnWhatItRead

LEMMA LockKeeps ==
    ASSUME LockInv, NEW c \in Clients, Lock(c)
    PROVE  LockInv'
<1> USE DEF LockInv
<1>1. /\ pc[c] = "waiting" /\ holder = Nobody /\ ~poisoned /\ holder' = c
      /\ pc' = [pc EXCEPT ![c] = "locked"]
      /\ UNCHANGED <<parserVars, poisoned, call, seen, calls, alive, finished, given, dropped>>
  BY DEF Lock, MutexAvailable
<1>2. TypeOK'
  <2>1. taken' \in 0..Ended' /\ text' \in Seq(Byte)
    BY <1>1, SameCount
  <2>2. QED
    BY <1>1, <2>1 DEF TypeOK
<1>3. HistoryOK'
  BY <1>1 DEF HistoryOK, parserVars
<1>4. LockOK'
  BY <1>1, ClientAssumption DEF LockOK, TypeOK
<1>5. ASSUME NEW d \in Clients, pc'[d] = "acting"
      PROVE  seen'[d] = RowsFor(call[d])' /\ (call'[d].op = "next_rows" => ~Refused(FALSE)')
  <2>1. pc[d] = "acting" /\ seen'[d] = seen[d] /\ call'[d] = call[d]
    BY <1>1, <1>5 DEF TypeOK
  <2>2. QED
    BY <1>1, <2>1, ReadStillHolds
<1>6. QED
  BY <1>2, <1>3, <1>4, <1>5 DEF ActsOnWhatItRead

LEMMA ReadKeeps ==
    ASSUME LockInv, NEW c \in Clients, Read(c)
    PROVE  LockInv'
<1> USE DEF LockInv
<1>1. /\ pc[c] = "locked" /\ (call[c].op = "next_rows" => ~Refused(FALSE))
      /\ seen' = [seen EXCEPT ![c] = RowsFor(call[c])]
      /\ pc' = [pc EXCEPT ![c] = "acting"]
      /\ UNCHANGED <<parserVars, holder, poisoned, call, calls, alive, finished, given, dropped>>
  BY DEF Read
<1>2. TypeOK'
  <2>1. taken' \in 0..Ended' /\ text' \in Seq(Byte)
    BY <1>1, SameCount
  <2>2. QED
    BY <1>1, <2>1 DEF TypeOK
<1>3. HistoryOK'
  <2>1. seen' \in [Clients -> Seq(Name)]
    BY <1>1, SeenTypes DEF HistoryOK
  <2>2. QED
    BY <1>1, <2>1 DEF HistoryOK, parserVars
<1>4. LockOK'
  BY <1>1 DEF LockOK, TypeOK
<1>5. ASSUME NEW d \in Clients, pc'[d] = "acting"
      PROVE  seen'[d] = RowsFor(call[d])' /\ (call'[d].op = "next_rows" => ~Refused(FALSE)')
  <2>1. CASE d # c
    <3>1. pc[d] = "acting" /\ seen'[d] = seen[d] /\ call'[d] = call[d]
      BY <1>1, <1>5, <2>1 DEF TypeOK, HistoryOK
    <3>2. QED
      BY <1>1, <3>1, ReadStillHolds
  <2>2. CASE d = c
    <3>1. text' = text /\ taken' = taken /\ strict' = strict /\ finished' = finished /\ call' = call
      BY <1>1 DEF parserVars
    <3>2. RowsFor(call[c])' = RowsFor(call[c])
      BY <3>1 DEF RowsFor, FirstNames, NamesUpTo, Ended, All, epoch
    <3>3. Refused(FALSE)' <=> Refused(FALSE)
      BY <3>1 DEF Refused
    <3>4. seen'[c] = RowsFor(call[c])
      BY <1>1 DEF HistoryOK
    <3>5. QED
      BY <1>1, <2>2, <3>1, <3>2, <3>3, <3>4
  <2>3. QED
    BY <2>1, <2>2
<1>6. QED
  BY <1>2, <1>3, <1>4, <1>5 DEF ActsOnWhatItRead

LEMMA KillKeeps ==
    ASSUME LockInv, NEW c \in Clients, Kill(c)
    PROVE  LockInv'
<1> USE DEF LockInv
<1>1. /\ alive' = [alive EXCEPT ![c] = FALSE]
      /\ UNCHANGED <<parserVars, holder, poisoned, pc, call, seen, calls, finished, given, dropped>>
  BY DEF Kill
<1>2. TypeOK'
  <2>1. taken' \in 0..Ended' /\ text' \in Seq(Byte)
    BY <1>1, SameCount
  <2>2. QED
    BY <1>1, <2>1 DEF TypeOK
<1>3. HistoryOK' /\ LockOK'
  BY <1>1 DEF HistoryOK, LockOK, parserVars
<1>4. ASSUME NEW d \in Clients, pc'[d] = "acting"
      PROVE  seen'[d] = RowsFor(call[d])' /\ (call'[d].op = "next_rows" => ~Refused(FALSE)')
  BY <1>1, <1>4, ReadStillHolds
<1>5. QED
  BY <1>2, <1>3, <1>4 DEF ActsOnWhatItRead

(* A call that returns without a change of the parser. *)
LEMMA QuietKeeps ==
    ASSUME LockInv, NEW c \in Clients,
           LockPoisoned(c) \/ Malformed(c) \/ Status(c) \/ Panic(c)
    PROVE  LockInv'
<1>1. /\ Leave(c) /\ pc[c] \in {"waiting", "locked", "acting"}
      /\ UNCHANGED <<parserVars, finished, given, dropped>>
      /\ poisoned' = poisoned \/ (poisoned' = TRUE /\ pc[c] \in {"locked", "acting"})
  BY DEF LockPoisoned, Malformed, Status, Panic
<1>2. poisoned' \in BOOLEAN /\ (poisoned => poisoned') /\ (poisoned' => poisoned \/ holder = c)
  <2>1. poisoned \in BOOLEAN
    BY DEF LockInv, TypeOK
  <2>2. pc[c] \in {"locked", "acting"} => holder = c
    BY DEF LockInv, LockOK
  <2>3. CASE poisoned' = poisoned
    BY <2>1, <2>3
  <2>4. CASE poisoned' = TRUE /\ pc[c] \in {"locked", "acting"}
    BY <2>2, <2>4
  <2>5. QED
    BY <1>1, <2>3, <2>4
<1>3. taken' \in 0..Ended' /\ text' \in Seq(Byte)
  BY <1>1, SameCount DEF LockInv
<1>4. /\ finished' \in Seq(Nat) /\ strict' = strict /\ given' \in [Clients -> Seq(Name)]
      /\ dropped' \subseteq Name /\ UNCHANGED <<parserVars, finished>>
  BY <1>1 DEF LockInv, TypeOK, HistoryOK, parserVars
<1>5. QED
  BY <1>1, <1>2, <1>3, <1>4, LeaveKeeps

LEMMA ReturnTypes ==
    ASSUME LockInv, NEW c \in Clients, NEW rows \in Seq(Name), Return(c, rows)
    PROVE  given' \in [Clients -> Seq(Name)] /\ dropped' \subseteq Name
<1>1. given \in [Clients -> Seq(Name)] /\ dropped \subseteq Name
  BY DEF LockInv, HistoryOK
<1>2. CASE alive[c]
  <2>1. given[c] \o rows \in Seq(Name)
    BY <1>1, ConcatProperties
  <2>2. QED
    BY <1>1, <1>2, <2>1 DEF Return
<1>3. CASE ~alive[c]
  <2>1. ToSet(rows) \subseteq Name
    BY ElementOfSeq, LenProperties DEF ToSet
  <2>2. QED
    BY <1>1, <1>3, <2>1 DEF Return
<1>4. QED
  BY <1>2, <1>3

LEMMA FeedKeeps ==
    ASSUME LockInv, NEW c \in Clients, FeedChunk(c)
    PROVE  LockInv'
<1>1. /\ pc[c] = "acting" /\ call[c].op = "feed" /\ text' = text \o call[c].chunk /\ Leave(c)
      /\ UNCHANGED <<taken, strict, poisoned, finished, given, dropped>>
  BY DEF FeedChunk
<1>2. call[c].chunk \in Seq(Byte)
  BY <1>1, RequestTypes DEF LockInv, TypeOK
<1>3. text \in Seq(Byte) /\ taken \in 0..Ended /\ poisoned \in BOOLEAN /\ finished \in Seq(Nat)
  BY DEF LockInv, TypeOK
<1>4. text' \in Seq(Byte)
  BY <1>1, <1>2, <1>3, ConcatProperties
<1>5. Ended <= Ended' /\ Ended \in Nat /\ Ended' \in Nat
  BY <1>1, <1>2, <1>3, <1>4, EndsGrow, RowEndsFinite DEF Ended
<1>6. taken' \in 0..Ended'
  BY <1>1, <1>3, <1>5
<1>7. given' \in [Clients -> Seq(Name)] /\ dropped' \subseteq Name
  BY <1>1 DEF LockInv, HistoryOK
<1>8. QED
  BY <1>1, <1>3, <1>4, <1>6, <1>7, LeaveKeeps

(* Who acts has read what is still so. *)
LEMMA ActorHasRead ==
    ASSUME LockInv, NEW c \in Clients, pc[c] = "acting"
    PROVE  /\ seen[c] = RowsFor(call[c]) /\ seen[c] \in Seq(Name)
           /\ taken \in Nat /\ finished \in Seq(Nat) /\ Ended \in Nat /\ All \in Nat
           /\ taken <= Ended /\ Ended <= All
<1>1. TypeOK /\ text \in Seq(Byte) /\ finished \in Seq(Nat) /\ taken \in 0..Ended
  BY DEF LockInv, TypeOK
<1>2. Ended \in Nat /\ All \in Nat /\ Ended <= All
  BY <1>1, CountTypes
<1>3. seen[c] = RowsFor(call[c])
  BY DEF LockInv, ActsOnWhatItRead
<1>4. seen[c] \in Seq(Name)
  BY <1>3, SeenTypes
<1>5. taken \in Nat /\ taken <= Ended
  BY <1>1, <1>2
<1>6. QED
  BY <1>1, <1>2, <1>3, <1>4, <1>5

LEMMA TakeRowsKeeps ==
    ASSUME LockInv, NEW c \in Clients, TakeRows(c)
    PROVE  LockInv'
<1>1. /\ pc[c] = "acting" /\ call[c].op = "next_rows" /\ taken' = taken + Len(seen[c])
      /\ Return(c, seen[c]) /\ Leave(c) /\ UNCHANGED <<text, strict, poisoned, finished>>
  BY DEF TakeRows
<1>2. /\ seen[c] = RowsFor(call[c]) /\ seen[c] \in Seq(Name)
      /\ taken \in Nat /\ finished \in Seq(Nat) /\ Ended \in Nat /\ taken <= Ended
  BY <1>1, ActorHasRead
<1>3. call[c].max \in Nat
  BY <1>1, RequestTypes DEF LockInv, TypeOK
<1> DEFINE last == IF taken + call[c].max < Ended THEN taken + call[c].max ELSE Ended
<1>4. last \in taken..Ended /\ seen[c] = NamesUpTo(last)
  BY <1>1, <1>2, <1>3 DEF RowsFor, FirstNames
<1> HIDE DEF last
<1>5. Len(seen[c]) = last - taken
  BY <1>2, <1>4, NamesOfRows
<1>6. Ended' = Ended
  BY <1>1 DEF Ended
<1>7. taken' \in 0..Ended'
  BY <1>1, <1>2, <1>4, <1>5, <1>6
<1>8. given' \in [Clients -> Seq(Name)] /\ dropped' \subseteq Name
  BY <1>1, <1>2, ReturnTypes
<1>9. text' \in Seq(Byte) /\ poisoned' \in BOOLEAN /\ (poisoned' <=> poisoned) /\ finished' \in Seq(Nat)
  BY <1>1 DEF LockInv, TypeOK
<1>10. QED
  BY <1>1, <1>7, <1>8, <1>9, LeaveKeeps

LEMMA FinalizeKeeps ==
    ASSUME LockInv, NEW c \in Clients, FinalizeText(c)
    PROVE  LockInv'
<1>1. /\ pc[c] = "acting" /\ text' = <<>> /\ taken' = 0 /\ finished' = Append(finished, All)
      /\ Leave(c) /\ UNCHANGED <<strict, poisoned>>
      /\ \/ dropped' = dropped \cup ToSet(seen[c]) /\ given' = given
         \/ Return(c, seen[c])
  BY DEF FinalizeText
<1>2. seen[c] \in Seq(Name) /\ finished \in Seq(Nat) /\ All \in Nat
  BY <1>1, ActorHasRead
<1>3. given' \in [Clients -> Seq(Name)] /\ dropped' \subseteq Name
  <2>1. ToSet(seen[c]) \subseteq Name
    BY <1>2, ElementOfSeq, LenProperties DEF ToSet
  <2>2. given \in [Clients -> Seq(Name)] /\ dropped \subseteq Name
    BY DEF LockInv, HistoryOK
  <2>3. QED
    BY <1>1, <1>2, <2>1, <2>2, ReturnTypes
<1>4. text' \in Seq(Byte) /\ finished' \in Seq(Nat)
  BY <1>1, <1>2
<1>5. taken' \in 0..Ended'
  <2>1. Ended' \in Nat
    BY <1>4, RowEndsFinite DEF Ended
  <2>2. QED
    BY <1>1, <2>1
<1>6. poisoned' \in BOOLEAN /\ (poisoned' <=> poisoned)
  BY <1>1 DEF LockInv, TypeOK
<1>7. QED
  BY <1>1, <1>3, <1>4, <1>5, <1>6, LeaveKeeps

LEMMA LockStep == LockInv /\ [Next]_vars => LockInv'
<1> SUFFICES ASSUME LockInv, [Next]_vars PROVE LockInv'
  OBVIOUS
<1>1. CASE UNCHANGED vars
  <2>1. UNCHANGED <<parserVars, finished>> /\ UNCHANGED clientVars
    BY <1>1 DEF vars, clientVars
  <2>2. ASSUME NEW d \in Clients, pc'[d] = "acting"
        PROVE  seen'[d] = RowsFor(call[d])' /\ (call'[d].op = "next_rows" => ~Refused(FALSE)')
    BY <2>1, <2>2, ReadStillHolds DEF clientVars
  <2>3. ActsOnWhatItRead'
    BY <2>2 DEF ActsOnWhatItRead
  <2>4. taken' \in 0..Ended' /\ text' \in Seq(Byte)
    BY <2>1, SameCount DEF LockInv
  <2>5. TypeOK'
    BY <2>1, <2>4 DEF LockInv, TypeOK, clientVars
  <2>6. HistoryOK' /\ LockOK'
    BY <2>1 DEF LockInv, HistoryOK, LockOK, clientVars, parserVars
  <2>7. QED
    BY <2>3, <2>5, <2>6 DEF LockInv
<1>2. ASSUME NEW c \in Clients, NEW request \in Requests, Invoke(c, request)
      PROVE  LockInv'
  BY <1>2, InvokeKeeps
<1>3. ASSUME NEW c \in Clients, Step(c)
      PROVE  LockInv'
  BY <1>3, LockKeeps, ReadKeeps, QuietKeeps, FeedKeeps, TakeRowsKeeps, FinalizeKeeps DEF Step
<1>4. ASSUME NEW c \in Clients, Panic(c) \/ Kill(c)
      PROVE  LockInv'
  BY <1>4, QuietKeeps, KillKeeps
<1>5. QED
  BY <1>1, <1>2, <1>3, <1>4 DEF Next

(* Calls, parser and lock keep their types. *)
THEOREM TypeCorrect == Spec => []TypeOK
<1>1. LockInv => TypeOK
  BY DEF LockInv
<1>2. QED
  BY <1>1, LockInit, LockStep, PTL DEF Spec

(* Whatever processes do, what a call has read of the parser still holds   *)
(* when it acts on it: reading and acting are as one.                      *)
THEOREM ActsCorrect == Spec => []ActsOnWhatItRead
<1>1. LockInv => ActsOnWhatItRead
  BY DEF LockInv
<1>2. QED
  BY <1>1, LockInit, LockStep, PTL DEF Spec

(* Once a call has panicked under the lock, no call ever changes the       *)
(* parser or returns rows of it again.                                     *)
THEOREM PoisonCorrect == Spec => PoisonedIsFinal
<1>1. LockInv /\ [Next]_vars => [poisoned => poisoned' /\ UNCHANGED <<parserVars, given, dropped>>]_vars
  <2> SUFFICES ASSUME LockInv, Next, poisoned
               PROVE  poisoned' /\ UNCHANGED <<parserVars, given, dropped>>
    OBVIOUS
  <2>1. \A c \in Clients : pc[c] \notin {"locked", "acting"}
    BY ClientAssumption DEF LockInv, LockOK
  <2>2. ASSUME NEW c \in Clients, NEW request \in Requests, Invoke(c, request)
        PROVE  poisoned' /\ UNCHANGED <<parserVars, given, dropped>>
    BY <2>2 DEF Invoke
  <2>3. ASSUME NEW c \in Clients, Step(c)
        PROVE  poisoned' /\ UNCHANGED <<parserVars, given, dropped>>
    BY <2>1, <2>3 DEF Step, Lock, MutexAvailable, LockPoisoned, Malformed, Read, FeedChunk, TakeRows,
                      Status, FinalizeText
  <2>4. ASSUME NEW c \in Clients, Panic(c) \/ Kill(c)
        PROVE  poisoned' /\ UNCHANGED <<parserVars, given, dropped>>
    BY <2>4 DEF Panic, Kill
  <2>5. QED
    BY <2>2, <2>3, <2>4 DEF Next
<1>2. QED
  BY <1>1, LockInit, LockStep, PTL DEF Spec, PoisonedIsFinal

-----------------------------------------------------------------------------
(* Who gets which row. *)

GivenOnce ==
    \A c, d \in Clients : \A i \in DOMAIN given[c], j \in DOMAIN given[d] :
        given[c][i] = given[d][j] => c = d /\ i = j

DroppedApart == \A c \in Clients : ToSet(given[c]) \cap dropped = {}

DroppedForAReason == dropped # {} => strict \/ \E c \in Clients : ~alive[c]

LEMMA PartsOfOnce ==
    EveryRowOnce <=> Names = TakenNames /\ GivenOnce /\ DroppedApart /\ DroppedForAReason
BY DEF EveryRowOnce, GivenOnce, DroppedApart, DroppedForAReason

(* The rows taken of the text that is fed are its first. *)
LEMMA RowsTaken ==
    ASSUME finished \in Seq(Nat), taken \in Nat, NEW x \in TakenNames
    PROVE  /\ x \in Name
           /\ x[1] < epoch \/ (x[1] = epoch /\ x[2] <= taken)
<1>1. epoch \in Nat /\ epoch = Len(finished) + 1 /\ DOMAIN finished = 1..Len(finished)
      /\ Len(finished) \in Nat
  BY DEF epoch
<1>2. CASE \E k \in 1..taken : x = <<epoch, k>>
  BY <1>1, <1>2 DEF Name
<1>3. CASE \E n \in DOMAIN finished : \E k \in 1..finished[n] : x = <<n, k>>
  <2>1. PICK n \in 1..Len(finished) : \E k \in 1..finished[n] : x = <<n, k>>
    BY <1>1, <1>3
  <2>2. finished[n] \in Nat
    BY <2>1, ElementOfSeq
  <2>3. PICK k \in 1..finished[n] : x = <<n, k>>
    BY <2>1
  <2>4. n \in Nat /\ k \in Nat /\ n < epoch
    BY <1>1, <2>2
  <2>5. QED
    BY <2>3, <2>4 DEF Name
<1>4. QED
  BY <1>2, <1>3 DEF TakenNames

(* After some rows are handed out: where a row a process was given is from. *)
LEMMA OldOrNew ==
    ASSUME given \in [Clients -> Seq(Name)], NEW c \in Clients, NEW rows \in Seq(Name),
           given' = [given EXCEPT ![c] = @ \o rows],
           NEW d \in Clients, NEW i \in DOMAIN given'[d]
    PROVE  \/ i \in DOMAIN given[d] /\ given'[d][i] = given[d][i]
           \/ /\ d = c /\ i - Len(given[c]) \in 1..Len(rows)
              /\ given'[d][i] = rows[i - Len(given[c])]
<1>1. CASE d # c
  BY <1>1
<1>2. CASE d = c
  <2>1. given'[c] = given[c] \o rows /\ given[c] \in Seq(Name)
    OBVIOUS
  <2>2. /\ given'[c] \in Seq(Name) /\ Len(given'[c]) = Len(given[c]) + Len(rows)
        /\ \A k \in 1..Len(given[c]) + Len(rows) :
              given'[c][k] = IF k <= Len(given[c]) THEN given[c][k] ELSE rows[k - Len(given[c])]
    BY <2>1, ConcatProperties
  <2>3. Len(given[c]) \in Nat /\ Len(rows) \in Nat /\ DOMAIN given[c] = 1..Len(given[c])
        /\ DOMAIN given'[c] = 1..Len(given'[c])
    BY <2>1, <2>2, LenProperties
  <2>4. i \in 1..Len(given[c]) + Len(rows)
    BY <1>2, <2>2, <2>3
  <2>5. QED
    BY <1>2, <2>2, <2>3, <2>4
<1>3. QED
  BY <1>1, <1>2

(* Rows after those taken are handed out, to a process or to nobody. *)
HandsOut(c, rows) ==
    \/ given' = [given EXCEPT ![c] = @ \o rows] /\ dropped' = dropped
    \/ given' = given /\ dropped' = dropped \cup ToSet(rows)

LEMMA HandOutOnce ==
    ASSUME LockInv, EveryRowOnce, NEW c \in Clients, NEW last \in taken..All,
           NEW rows, rows = NamesUpTo(last), HandsOut(c, rows)
    PROVE  Names' = Names \cup {<<epoch, k>> : k \in taken + 1..last} /\ GivenOnce' /\ DroppedApart'
<1>1. /\ taken \in Nat /\ finished \in Seq(Nat) /\ given \in [Clients -> Seq(Name)]
      /\ All \in Nat /\ last \in Nat /\ taken <= last
  <2>1. text \in Seq(Byte) /\ taken \in 0..Ended /\ finished \in Seq(Nat)
        /\ given \in [Clients -> Seq(Name)]
    BY DEF LockInv, TypeOK, HistoryOK
  <2>2. Ended \in Nat /\ All \in Nat
    BY <2>1, CountTypes
  <2>3. QED
    BY <2>1, <2>2
<1>2. /\ rows \in Seq(Name) /\ Len(rows) = last - taken /\ epoch \in Nat
      /\ \A k \in 1..last - taken : rows[k] = <<epoch, taken + k>>
  BY <1>1, NamesOfRows
<1>3. DOMAIN rows = 1..last - taken
  BY <1>2
<1>4. \A k \in DOMAIN rows : rows[k] \notin Names
  <2>1. SUFFICES ASSUME NEW k \in DOMAIN rows, rows[k] \in Names PROVE FALSE
    OBVIOUS
  <2>2. rows[k] \in TakenNames
    BY <2>1, PartsOfOnce
  <2>3. rows[k][1] < epoch \/ (rows[k][1] = epoch /\ rows[k][2] <= taken)
    BY <1>1, <2>2, RowsTaken
  <2>4. rows[k][1] = epoch /\ rows[k][2] = taken + k /\ k \in 1..last - taken
    BY <1>2, <1>3
  <2>5. QED
    BY <1>1, <1>2, <2>3, <2>4
<1>5. \A k, l \in DOMAIN rows : rows[k] = rows[l] => k = l
  <2>1. SUFFICES ASSUME NEW k \in DOMAIN rows, NEW l \in DOMAIN rows, rows[k] = rows[l]
                 PROVE  k = l
    OBVIOUS
  <2>2. rows[k] = <<epoch, taken + k>> /\ rows[l] = <<epoch, taken + l>>
    BY <1>2, <1>3
  <2>3. taken + k = taken + l
    <3>1. rows[k] \in Name /\ rows[k][2] = taken + k
      BY <1>2, <2>2, ElementOfSeq
    <3>2. rows[l][2] = taken + l
      BY <2>2
    <3>3. rows[k][2] = rows[l][2]
      BY <2>1
    <3>4. QED
      BY <3>1, <3>2, <3>3
  <2>4. QED
    BY <1>1, <1>3, <2>3
<1>6. ToSet(rows) = {<<epoch, k>> : k \in taken + 1..last}
  <2>1. ASSUME NEW x \in ToSet(rows) PROVE x \in {<<epoch, k>> : k \in taken + 1..last}
    <3>1. PICK k \in 1..last - taken : x = rows[k]
      BY <1>3 DEF ToSet
    <3>2. taken + k \in taken + 1..last /\ x = <<epoch, taken + k>>
      BY <1>1, <1>2, <3>1
    <3>3. QED
      BY <3>2
  <2>2. ASSUME NEW k \in taken + 1..last PROVE <<epoch, k>> \in ToSet(rows)
    <3>1. k - taken \in 1..last - taken /\ taken + (k - taken) = k
      BY <1>1
    <3>2. rows[k - taken] = <<epoch, k>> /\ k - taken \in DOMAIN rows
      BY <1>2, <1>3, <3>1
    <3>3. QED
      BY <3>2 DEF ToSet
  <2>3. QED
    BY <2>1, <2>2
<1>7. \A d \in Clients : \A i \in DOMAIN given[d] : given[d][i] \in Names
  BY DEF Names, ToSet
<1>8. GivenOnce /\ DroppedApart /\ dropped \subseteq Names
  BY PartsOfOnce DEF Names
<1>9. CASE given' = [given EXCEPT ![c] = @ \o rows] /\ dropped' = dropped
  <2>1. GivenOnce'
    <3>1. SUFFICES ASSUME NEW d \in Clients, NEW e \in Clients,
                          NEW i \in DOMAIN given'[d], NEW j \in DOMAIN given'[e],
                          given'[d][i] = given'[e][j]
                   PROVE  d = e /\ i = j
      BY DEF GivenOnce
    <3>2. \/ i \in DOMAIN given[d] /\ given'[d][i] = given[d][i]
          \/ /\ d = c /\ i - Len(given[c]) \in DOMAIN rows
             /\ given'[d][i] = rows[i - Len(given[c])]
      BY <1>1, <1>2, <1>3, <1>9, OldOrNew, SMTT(30)
    <3>3. \/ j \in DOMAIN given[e] /\ given'[e][j] = given[e][j]
          \/ /\ e = c /\ j - Len(given[c]) \in DOMAIN rows
             /\ given'[e][j] = rows[j - Len(given[c])]
      BY <1>1, <1>2, <1>3, <1>9, OldOrNew, SMTT(30)
    <3>4. CASE i \in DOMAIN given[d] /\ given'[d][i] = given[d][i]
      <4>1. j \in DOMAIN given[e] /\ given'[e][j] = given[e][j]
        BY <1>4, <1>7, <3>1, <3>3, <3>4
      <4>2. given[d][i] = given[e][j]
        BY <3>1, <3>4, <4>1
      <4>3. QED
        BY <1>8, <3>4, <4>1, <4>2 DEF GivenOnce
    <3>5. CASE /\ d = c /\ i - Len(given[c]) \in DOMAIN rows
               /\ given'[d][i] = rows[i - Len(given[c])]
      <4>1. e = c /\ j - Len(given[c]) \in DOMAIN rows /\ given'[e][j] = rows[j - Len(given[c])]
        BY <1>4, <1>7, <3>1, <3>3, <3>5
      <4>2. i - Len(given[c]) = j - Len(given[c])
        BY <1>5, <3>1, <3>5, <4>1
      <4>3. Len(given[c]) \in Nat /\ i \in Int /\ j \in Int
        <5>1. given[c] \in Seq(Name) /\ given'[c] \in Seq(Name)
          BY <1>1, <1>2, <1>9, ConcatProperties
        <5>2. QED
          BY <3>5, <4>1, <5>1, LenProperties
      <4>4. QED
        BY <3>5, <4>1, <4>2, <4>3
    <3>6. QED
      BY <3>2, <3>4, <3>5
  <2>2. DroppedApart'
    <3>1. SUFFICES ASSUME NEW d \in Clients, NEW i \in DOMAIN given'[d]
                   PROVE  given'[d][i] \notin dropped
      BY <1>9 DEF DroppedApart, ToSet
    <3>2. \/ i \in DOMAIN given[d] /\ given'[d][i] = given[d][i]
          \/ /\ d = c /\ i - Len(given[c]) \in DOMAIN rows
             /\ given'[d][i] = rows[i - Len(given[c])]
      BY <1>1, <1>2, <1>3, <1>9, OldOrNew, SMTT(30)
    <3>3. QED
      BY <1>4, <1>8, <3>2 DEF DroppedApart, ToSet
  <2>3. Names' = Names \cup ToSet(rows)
    <3>1. ASSUME NEW x \in Names' PROVE x \in Names \cup ToSet(rows)
      <4>1. CASE x \in dropped'
        BY <1>8, <1>9, <4>1
      <4>2. ASSUME NEW d \in Clients, x \in ToSet(given'[d]) PROVE x \in Names \cup ToSet(rows)
        <5>1. PICK i \in DOMAIN given'[d] : x = given'[d][i]
          BY <4>2 DEF ToSet
        <5>2. \/ i \in DOMAIN given[d] /\ given'[d][i] = given[d][i]
              \/ /\ d = c /\ i - Len(given[c]) \in DOMAIN rows
                 /\ given'[d][i] = rows[i - Len(given[c])]
          BY <1>1, <1>2, <1>3, <1>9, OldOrNew, SMTT(30)
        <5>3. QED
          BY <1>7, <5>1, <5>2 DEF ToSet
      <4>3. QED
        BY <4>1, <4>2 DEF Names
    <3>2. /\ given'[c] = given[c] \o rows /\ \A d \in Clients : d # c => given'[d] = given[d]
          /\ given[c] \in Seq(Name)
      BY <1>1, <1>9
    <3>3. /\ Len(given'[c]) = Len(given[c]) + Len(rows) /\ given'[c] \in Seq(Name)
          /\ \A k \in 1..Len(given[c]) + Len(rows) :
                given'[c][k] = IF k <= Len(given[c]) THEN given[c][k] ELSE rows[k - Len(given[c])]
          /\ Len(given[c]) \in Nat /\ Len(rows) \in Nat
      BY <1>2, <3>2, ConcatProperties, LenProperties
    <3>4. ASSUME NEW k \in DOMAIN rows PROVE rows[k] \in ToSet(given'[c])
      <4>1. /\ Len(given[c]) + k \in 1..Len(given[c]) + Len(rows) /\ ~(Len(given[c]) + k <= Len(given[c]))
            /\ Len(given[c]) + k - Len(given[c]) = k
        BY <1>2, <1>3, <3>3, SMTT(30)
      <4>2. given'[c][Len(given[c]) + k] = rows[k] /\ Len(given[c]) + k \in DOMAIN given'[c]
        BY <3>3, <4>1, SMTT(40)
      <4>3. QED
        BY <4>2 DEF ToSet
    <3>5. ASSUME NEW k \in DOMAIN given[c] PROVE given[c][k] \in ToSet(given'[c])
      <4>1. k \in 1..Len(given[c]) /\ k \in 1..Len(given[c]) + Len(rows)
        BY <3>2, <3>3
      <4>2. given'[c][k] = given[c][k] /\ k \in DOMAIN given'[c]
        BY <3>3, <4>1
      <4>3. QED
        BY <4>2 DEF ToSet
    <3>6. ToSet(rows) \subseteq Names'
      BY <3>4 DEF ToSet, Names
    <3>7. \A d \in Clients : ToSet(given[d]) \subseteq ToSet(given'[d])
      BY <3>2, <3>5, SMTT(30) DEF ToSet
    <3>8. Names \subseteq Names'
      BY <1>9, <3>7 DEF Names
    <3>9. QED
      BY <3>1, <3>6, <3>8
  <2>4. QED
    BY <1>6, <2>1, <2>2, <2>3
<1>10. CASE given' = given /\ dropped' = dropped \cup ToSet(rows)
  <2>1. GivenOnce'
    BY <1>8, <1>10 DEF GivenOnce
  <2>2. DroppedApart'
    BY <1>4, <1>7, <1>8, <1>10 DEF DroppedApart, ToSet
  <2>3. Names' = Names \cup ToSet(rows)
    BY <1>10 DEF Names
  <2>4. QED
    BY <1>6, <2>1, <2>2, <2>3
<1>11. QED
  BY <1>9, <1>10 DEF HandsOut

(* So do the rows of each process stay in the order of the text. *)
LEMMA HandOutInOrder ==
    ASSUME LockInv, EveryRowOnce, RowsInOrder, NEW c \in Clients, NEW last \in taken..All,
           NEW rows, rows = NamesUpTo(last), HandsOut(c, rows)
    PROVE  RowsInOrder'
<1>1. /\ taken \in Nat /\ finished \in Seq(Nat) /\ given \in [Clients -> Seq(Name)]
      /\ All \in Nat /\ last \in Nat /\ taken <= last
  <2>1. text \in Seq(Byte) /\ taken \in 0..Ended /\ finished \in Seq(Nat)
        /\ given \in [Clients -> Seq(Name)]
    BY DEF LockInv, TypeOK, HistoryOK
  <2>2. Ended \in Nat /\ All \in Nat
    BY <2>1, CountTypes
  <2>3. QED
    BY <2>1, <2>2
<1>2. /\ rows \in Seq(Name) /\ Len(rows) = last - taken /\ epoch \in Nat
      /\ \A k \in 1..last - taken : rows[k] = <<epoch, taken + k>>
  BY <1>1, NamesOfRows
<1>3. CASE given' = given
  BY <1>3 DEF RowsInOrder
<1>4. CASE given' = [given EXCEPT ![c] = @ \o rows]
  <2>1. SUFFICES ASSUME NEW d \in Clients, NEW i \in 2..Len(given'[d])
                 PROVE  LET x == given'[d][i - 1]
                            y == given'[d][i]
                        IN  x[1] < y[1] \/ (x[1] = y[1] /\ x[2] < y[2])
    BY DEF RowsInOrder
  <2>2. CASE d # c
    BY <1>1, <1>4, <2>2 DEF RowsInOrder
  <2>3. CASE d = c
    <3>1. given'[c] = given[c] \o rows /\ given[c] \in Seq(Name)
      BY <1>1, <1>4
    <3>2. /\ Len(given'[c]) = Len(given[c]) + Len(rows)
          /\ \A k \in 1..Len(given[c]) + Len(rows) :
                given'[c][k] = IF k <= Len(given[c]) THEN given[c][k] ELSE rows[k - Len(given[c])]
          /\ Len(given[c]) \in Nat /\ Len(rows) \in Nat
      BY <1>2, <3>1, ConcatProperties, LenProperties
    <3> DEFINE n == Len(given[c])
    <3>3. i \in 2..n + Len(rows) /\ i - 1 \in 1..n + Len(rows) /\ i \in 1..n + Len(rows)
      BY <2>3, <3>2
    <3>4. CASE i <= n
      <4>1. i \in 2..n /\ given'[c][i] = given[c][i] /\ given'[c][i - 1] = given[c][i - 1]
        BY <3>2, <3>3, <3>4, SMTT(40)
      <4>2. QED
        BY <2>3, <4>1 DEF RowsInOrder
    <3>5. CASE i = n + 1
      <4>1. CASE n = 0
        BY <3>3, <3>5, <4>1
      <4>2. CASE n # 0
        <5>1. i - 1 = n /\ i - n = 1 /\ n \in 1..n /\ 1 \in 1..last - taken
          BY <1>1, <1>2, <3>2, <3>3, <3>5, <4>2
        <5>2. given'[c][i - 1] = given[c][n] /\ given'[c][i] = rows[1]
          <6>1. i - 1 <= n /\ ~(i <= n)
            BY <3>2, <3>5
          <6>2. given'[c][i - 1] = given[c][i - 1]
            BY <3>2, <3>3, <6>1
          <6>3. given'[c][i] = rows[i - n]
            BY <3>2, <3>3, <6>1
          <6>4. QED
            BY <5>1, <6>2, <6>3
        <5>3. given[c][n] \in Names /\ given[c][n] \in TakenNames
          <6>1. n \in DOMAIN given[c]
            BY <3>1, <3>2, <5>1
          <6>2. QED
            BY <6>1, PartsOfOnce DEF Names, ToSet
        <5>4. /\ given[c][n] \in Name
              /\ given[c][n][1] < epoch \/ (given[c][n][1] = epoch /\ given[c][n][2] <= taken)
          BY <1>1, <5>3, RowsTaken
        <5>5. rows[1][1] = epoch /\ rows[1][2] = taken + 1
          BY <1>2, <5>1
        <5>6. given[c][n][1] \in Nat /\ given[c][n][2] \in Nat
          BY <5>4 DEF Name
        <5>7. \/ given[c][n][1] < rows[1][1]
              \/ given[c][n][1] = rows[1][1] /\ given[c][n][2] < rows[1][2]
          BY <1>1, <1>2, <5>4, <5>5, <5>6
        <5>8. QED
          BY <2>3, <5>2, <5>7
      <4>3. QED
        BY <4>1, <4>2
    <3>6. CASE i > n + 1
      <4>1. i - n \in 1..last - taken /\ i - 1 - n \in 1..last - taken
            /\ i - 1 - n = i - n - 1 /\ ~(i <= n) /\ ~(i - 1 <= n) /\ i - n \in Int
        BY <1>1, <1>2, <3>2, <3>3, <3>6, SMTT(30)
      <4>2. given'[c][i] = rows[i - n] /\ given'[c][i - 1] = rows[i - 1 - n]
        BY <3>2, <3>3, <4>1
      <4>3. given'[c][i] = <<epoch, taken + (i - n)>> /\ given'[c][i - 1] = <<epoch, taken + (i - 1 - n)>>
        BY <1>2, <4>1, <4>2
      <4>4. taken + (i - 1 - n) < taken + (i - n)
        BY <1>1, <4>1
      <4>5. /\ given'[c][i][1] = given'[c][i - 1][1]
            /\ given'[c][i][2] = taken + (i - n) /\ given'[c][i - 1][2] = taken + (i - 1 - n)
        BY <4>3
      <4>6. QED
        BY <2>3, <4>4, <4>5
    <3>7. QED
      BY <3>2, <3>3, <3>4, <3>5, <3>6
  <2>4. QED
    BY <2>2, <2>3
<1>5. QED
  BY <1>3, <1>4 DEF HandsOut

LEMMA TakenMore ==
    ASSUME taken \in Nat, NEW last \in Nat, taken <= last,
           taken' = last, finished' = finished
    PROVE  TakenNames' = TakenNames \cup {<<epoch, k>> : k \in taken + 1..last}
<1>1. 1..last = (1..taken) \cup (taken + 1..last)
  OBVIOUS
<1>2. {<<epoch, k>> : k \in 1..last} = {<<epoch, k>> : k \in 1..taken} \cup {<<epoch, k>> : k \in taken + 1..last}
  BY <1>1
<1>3. epoch' = epoch
  BY DEF epoch
<1> DEFINE closed == UNION {{<<n, k>> : k \in 1..finished[n]} : n \in DOMAIN finished}
<1>4. TakenNames = closed \cup {<<epoch, k>> : k \in 1..taken}
  BY DEF TakenNames
<1>5. TakenNames' = closed \cup {<<epoch, k>> : k \in 1..last}
  BY <1>3 DEF TakenNames
<1> HIDE DEF closed
<1>6. QED
  BY <1>2, <1>4, <1>5

LEMMA TakenAll ==
    ASSUME taken \in Nat, finished \in Seq(Nat), NEW rows \in Nat, taken <= rows,
           taken' = 0, finished' = Append(finished, rows)
    PROVE  TakenNames' = TakenNames \cup {<<epoch, k>> : k \in taken + 1..rows}
<1>1. /\ epoch \in Nat /\ epoch = Len(finished) + 1 /\ DOMAIN finished = 1..Len(finished)
      /\ Len(finished) \in Nat /\ finished' \in Seq(Nat) /\ Len(finished') = epoch
      /\ finished'[epoch] = rows /\ \A n \in 1..Len(finished) : finished'[n] = finished[n]
  BY AppendProperties DEF epoch
<1>2. DOMAIN finished' = 1..epoch /\ 1..epoch = (1..Len(finished)) \cup {epoch}
  BY <1>1
<1>3. 1..rows = (1..taken) \cup (taken + 1..rows) /\ 1..0 = {}
  OBVIOUS
<1>4. ASSUME NEW x PROVE x \in TakenNames' <=> x \in TakenNames \cup {<<epoch, k>> : k \in taken + 1..rows}
  <2>1. x \in TakenNames' <=> \E n \in 1..epoch : \E k \in 1..finished'[n] : x = <<n, k>>
    <3>1. {<<epoch', k>> : k \in 1..taken'} = {}
      BY <1>3
    <3> DEFINE rowsOf(n) == {<<n, k>> : k \in 1..finished'[n]}
    <3>2. TakenNames' = UNION {rowsOf(n) : n \in 1..epoch}
      BY <1>2, <3>1 DEF TakenNames
    <3>3. \A n : x \in rowsOf(n) <=> \E k \in 1..finished'[n] : x = <<n, k>>
      OBVIOUS
    <3> HIDE DEF rowsOf
    <3>4. x \in UNION {rowsOf(n) : n \in 1..epoch} <=> \E n \in 1..epoch : x \in rowsOf(n)
      OBVIOUS
    <3>5. QED
      BY <3>2, <3>3, <3>4
  <2>2. x \in TakenNames <=> \/ \E n \in 1..Len(finished) : \E k \in 1..finished[n] : x = <<n, k>>
                             \/ \E k \in 1..taken : x = <<epoch, k>>
    BY <1>1, SMTT(30) DEF TakenNames
  <2>3. (\E n \in 1..epoch : \E k \in 1..finished'[n] : x = <<n, k>>)
        <=> \/ \E n \in 1..Len(finished) : \E k \in 1..finished[n] : x = <<n, k>>
            \/ \E k \in 1..rows : x = <<epoch, k>>
    BY <1>1, <1>2
  <2>4. (\E k \in 1..rows : x = <<epoch, k>>)
        <=> \/ \E k \in 1..taken : x = <<epoch, k>>
            \/ \E k \in taken + 1..rows : x = <<epoch, k>>
    BY <1>3
  <2>5. QED
    BY <2>1, <2>2, <2>3, <2>4
<1>5. QED
  BY <1>4

HandInv == LockInv /\ EveryRowOnce /\ RowsInOrder

LEMMA HandInit == Init => HandInv
<1> SUFFICES ASSUME Init PROVE HandInv
  OBVIOUS
<1>1. LockInv
  BY LockInit
<1>2. \A c \in Clients : given[c] = <<>>
  BY DEF Init
<1>3. \A c \in Clients : DOMAIN given[c] = {} /\ Len(given[c]) = 0 /\ ToSet(given[c]) = {}
  BY <1>2 DEF ToSet
<1>4. Names = {}
  BY <1>3 DEF Init, Names
<1>5. TakenNames = {}
  <2>1. finished = <<>> /\ taken = 0
    BY DEF Init
  <2>2. DOMAIN finished = {} /\ 1..taken = {}
    BY <2>1
  <2>3. QED
    BY <2>2 DEF TakenNames
<1>6. GivenOnce /\ DroppedApart /\ DroppedForAReason
  BY <1>3 DEF Init, GivenOnce, DroppedApart, DroppedForAReason
<1>7. RowsInOrder
  BY <1>3 DEF RowsInOrder
<1>8. QED
  BY <1>1, <1>4, <1>5, <1>6, <1>7, PartsOfOnce DEF HandInv

(* A step that hands nothing out. *)
LEMMA NothingHandedOut ==
    ASSUME HandInv, UNCHANGED <<taken, strict, finished, given, dropped>>,
           \A d \in Clients : ~alive[d] => ~alive'[d]
    PROVE  EveryRowOnce' /\ RowsInOrder'
<1>1. Names' = Names /\ TakenNames' = TakenNames
  BY DEF Names, TakenNames, epoch
<1>2. GivenOnce' = GivenOnce /\ DroppedApart' = DroppedApart /\ RowsInOrder' = RowsInOrder
  BY DEF GivenOnce, DroppedApart, RowsInOrder
<1>3. Names = TakenNames /\ GivenOnce /\ DroppedApart /\ DroppedForAReason /\ RowsInOrder
  BY PartsOfOnce DEF HandInv
<1>4. DroppedForAReason'
  BY <1>3 DEF DroppedForAReason
<1>5. EveryRowOnce'
  <2>1. Names' = TakenNames' /\ GivenOnce' /\ DroppedApart'
    BY <1>1, <1>2, <1>3
  <2>2. QED
    BY <1>4, <2>1 DEF EveryRowOnce, GivenOnce, DroppedApart, DroppedForAReason
<1>6. QED
  BY <1>2, <1>3, <1>5

(* A step that hands out the next rows, up to some row. *)
LEMMA HandedOut ==
    ASSUME HandInv, NEW c \in Clients, NEW last \in taken..All,
           HandsOut(c, NamesUpTo(last)),
           TakenNames' = TakenNames \cup {<<epoch, k>> : k \in taken + 1..last},
           strict' = strict, alive' = alive, dropped' = dropped \/ strict \/ ~alive[c]
    PROVE  EveryRowOnce' /\ RowsInOrder'
<1>1. LockInv /\ EveryRowOnce /\ RowsInOrder
  BY DEF HandInv
<1>2. RowsInOrder'
  BY <1>1, HandOutInOrder
<1>3. /\ Names' = Names \cup {<<epoch, k>> : k \in taken + 1..last}
      /\ GivenOnce' /\ DroppedApart'
  BY <1>1, HandOutOnce
<1>4. Names = TakenNames /\ DroppedForAReason
  BY <1>1, PartsOfOnce
<1>5. Names' = TakenNames'
  BY <1>3, <1>4
<1>6. DroppedForAReason'
  BY <1>4 DEF DroppedForAReason
<1>7. QED
  BY <1>2, <1>3, <1>5, <1>6 DEF EveryRowOnce, GivenOnce, DroppedApart, DroppedForAReason

LEMMA TakeRowsHandsOut ==
    ASSUME HandInv, NEW c \in Clients, TakeRows(c)
    PROVE  EveryRowOnce' /\ RowsInOrder'
<1>1. /\ pc[c] = "acting" /\ call[c].op = "next_rows" /\ taken' = taken + Len(seen[c])
      /\ Return(c, seen[c]) /\ alive' = alive /\ UNCHANGED <<strict, finished>>
  BY DEF TakeRows, Leave
<1>2. /\ seen[c] = RowsFor(call[c]) /\ taken \in Nat /\ finished \in Seq(Nat)
      /\ Ended \in Nat /\ All \in Nat /\ taken <= Ended /\ Ended <= All
  BY <1>1, ActorHasRead DEF HandInv
<1>3. call[c].max \in Nat
  BY <1>1, RequestTypes DEF HandInv, LockInv, TypeOK
<1> DEFINE last == IF taken + call[c].max < Ended THEN taken + call[c].max ELSE Ended
<1>4. last \in taken..All /\ last \in Nat /\ taken <= last /\ seen[c] = NamesUpTo(last)
  BY <1>1, <1>2, <1>3 DEF RowsFor, FirstNames
<1> HIDE DEF last
<1>5. taken' = last
  <2>1. Len(seen[c]) = last - taken
    BY <1>2, <1>4, NamesOfRows
  <2>2. QED
    BY <1>1, <1>2, <1>4, <2>1
<1>6. TakenNames' = TakenNames \cup {<<epoch, k>> : k \in taken + 1..last}
  BY <1>1, <1>2, <1>4, <1>5, TakenMore
<1>7. HandsOut(c, NamesUpTo(last)) /\ (dropped' = dropped \/ ~alive[c])
  BY <1>1, <1>4 DEF Return, HandsOut
<1>8. QED
  BY <1>1, <1>4, <1>6, <1>7, HandedOut

LEMMA FinalizeHandsOut ==
    ASSUME HandInv, NEW c \in Clients, FinalizeText(c)
    PROVE  EveryRowOnce' /\ RowsInOrder'
<1>1. /\ pc[c] = "acting" /\ call[c].op = "finalize" /\ taken' = 0
      /\ finished' = Append(finished, All) /\ alive' = alive /\ strict' = strict
      /\ \/ dropped' = dropped \cup ToSet(seen[c]) /\ given' = given /\ strict
         \/ Return(c, seen[c])
  BY DEF FinalizeText, Leave, Refused
<1>2. /\ seen[c] = RowsFor(call[c]) /\ taken \in Nat /\ finished \in Seq(Nat)
      /\ Ended \in Nat /\ All \in Nat /\ taken <= Ended /\ Ended <= All
  BY <1>1, ActorHasRead DEF HandInv
<1>3. All \in taken..All /\ taken <= All /\ seen[c] = NamesUpTo(All)
  BY <1>1, <1>2 DEF RowsFor
<1>4. TakenNames' = TakenNames \cup {<<epoch, k>> : k \in taken + 1..All}
  BY <1>1, <1>2, <1>3, TakenAll
<1>5. HandsOut(c, NamesUpTo(All)) /\ (dropped' = dropped \/ strict \/ ~alive[c])
  BY <1>1, <1>3 DEF Return, HandsOut
<1>6. QED
  BY <1>1, <1>3, <1>4, <1>5, HandedOut

LEMMA HandStep == HandInv /\ [Next]_vars => HandInv'
<1> SUFFICES ASSUME HandInv, [Next]_vars PROVE HandInv'
  OBVIOUS
<1>1. LockInv'
  BY LockStep DEF HandInv
<1>2. EveryRowOnce' /\ RowsInOrder'
  <2>1. CASE UNCHANGED vars
    BY <2>1, NothingHandedOut DEF vars, parserVars, clientVars
  <2>2. ASSUME NEW c \in Clients, NEW request \in Requests, Invoke(c, request)
        PROVE  EveryRowOnce' /\ RowsInOrder'
    BY <2>2, NothingHandedOut DEF Invoke, parserVars
  <2>3. ASSUME NEW c \in Clients,
               Lock(c) \/ LockPoisoned(c) \/ Malformed(c) \/ Read(c) \/ Status(c) \/ Panic(c)
        PROVE  EveryRowOnce' /\ RowsInOrder'
    BY <2>3, NothingHandedOut DEF Lock, LockPoisoned, Malformed, Read, Status, Panic, Leave, parserVars
  <2>4. ASSUME NEW c \in Clients, FeedChunk(c)
        PROVE  EveryRowOnce' /\ RowsInOrder'
    BY <2>4, NothingHandedOut DEF FeedChunk, Leave
  <2>5. ASSUME NEW c \in Clients, Kill(c)
        PROVE  EveryRowOnce' /\ RowsInOrder'
    <3>1. alive \in [Clients -> BOOLEAN]
      BY DEF HandInv, LockInv, TypeOK
    <3>2. \A d \in Clients : ~alive[d] => ~alive'[d]
      BY <2>5, <3>1 DEF Kill
    <3>3. QED
      BY <2>5, <3>2, NothingHandedOut DEF Kill, parserVars
  <2>6. QED
    BY <2>1, <2>2, <2>3, <2>4, <2>5, TakeRowsHandsOut, FinalizeHandsOut DEF Next, Step
<1>3. QED
  BY <1>1, <1>2 DEF HandInv

(* Each row that left the parser was given to one process or dropped, and  *)
(* to one only, once; and none is dropped but for a kill or a refusal.     *)
THEOREM OnceCorrect == Spec => []EveryRowOnce
<1>1. HandInv => EveryRowOnce
  BY DEF HandInv
<1>2. QED
  BY <1>1, HandInit, HandStep, PTL DEF Spec

(* Each process gets its rows in the order of the text, whoever else takes *)
(* rows of it in between.                                                  *)
THEOREM OrderCorrect == Spec => []RowsInOrder
<1>1. HandInv => RowsInOrder
  BY DEF HandInv
<1>2. QED
  BY <1>1, HandInit, HandStep, PTL DEF Spec
=============================================================================
