---------------------------- MODULE SharedParser ----------------------------
(***************************************************************************)
(* One parser reference shared by several BEAM processes: the streaming    *)
(* NIFs of lib.rs around the Mutex of resource.rs.                         *)
(*                                                                         *)
(* The parser is that of CsvStream, with the number of rows delivered for  *)
(* the rows.  Every NIF locks, reads the parser, acts on what it read and  *)
(* unlocks when it returns; the reading and the acting are steps of their  *)
(* own here, so that what the lock is for can be seen.                     *)
(* A process may be killed at any time: the NIF it is in runs to its end   *)
(* on its dirty scheduler and its result is dropped.  A NIF may panic      *)
(* while it holds the lock, which poisons it.                              *)
(*                                                                         *)
(* A row is named <<n, k>>: the k-th row of the n-th text.                 *)
(***************************************************************************)
EXTENDS CsvText

CONSTANTS Clients,   \* the processes
          Nobody,    \* holds the lock when it is free
          Chunks,    \* what they feed
          Counts,    \* how many rows they ask for
          MaxCalls   \* bound: calls of all processes

ASSUME ClientAssumption ==
    /\ Nobody \notin Clients
    /\ Chunks \subseteq Seq(Byte)
    /\ Counts \subseteq Nat
    /\ MaxCalls \in Nat

VARIABLES text,      \* the bytes fed since the last finalize
          taken,     \* the number of rows taken since then
          strict,    \* TRUE if malformed quoting is an error
          holder,    \* who holds the mutex
          poisoned,  \* whether the mutex is
          pc,        \* of a client: "ready", "waiting" for the mutex,
                     \* "locked", or "acting" on what it has read
          call,      \* its call
          seen,      \* the rows its call has read
          calls,     \* how many calls were made
          alive,     \* whether its process is
          finished,  \* history: how many rows each text closed so far had
          given,     \* history: the rows it was returned
          dropped    \* history: rows taken out that nobody was returned

parserVars == <<text, taken, strict>>
clientVars == <<holder, poisoned, pc, call, seen, calls, alive, finished, given, dropped>>
vars == <<parserVars, clientVars>>

FeedCalls == [op : {"feed"}, chunk : Chunks]
NextRowsCalls == [op : {"next_rows"}, max : Counts]
OtherCalls == [op : {"status", "finalize"}]
NoCall == [op |-> "none"]

(* The number of the text that is fed now. *)
epoch == Len(finished) + 1

(* How many of its rows have ended, and how many it has if it ends here. *)
Ended == Cardinality(RowEnds(text))
All == IF LastLine(text) = <<>> THEN Ended ELSE Ended + 1

(* The names of its rows that are not taken, up to the last one. *)
NamesUpTo(last) == [k \in 1..last - taken |-> <<epoch, taken + k>>]

(* Mutant: the newest rows come first. *)
NewestFirst(max) ==
    LET names == NamesUpTo(IF taken + max < Ended THEN taken + max ELSE Ended)
    IN  Reverse(names)

(* Mutant: as many rows as are asked for. *)
NamesUnclamped(max) == NamesUpTo(taken + max)

FirstNames(max) == NamesUpTo(IF taken + max < Ended THEN taken + max ELSE Ended)

Refused(complete) == strict /\ FirstViolation(text, complete) # NoViolation

Init ==
    /\ text = <<>> /\ taken = 0 /\ strict \in BOOLEAN
    /\ holder = Nobody /\ poisoned = FALSE
    /\ pc = [c \in Clients |-> "ready"]
    /\ call = [c \in Clients |-> NoCall]
    /\ seen = [c \in Clients |-> <<>>]
    /\ calls = 0
    /\ alive = [c \in Clients |-> TRUE]
    /\ finished = <<>>
    /\ given = [c \in Clients |-> <<>>]
    /\ dropped = {}

Invoke(c, request) ==
    /\ alive[c] /\ pc[c] = "ready"
    /\ calls < MaxCalls
    /\ calls' = calls + 1
    /\ call' = [call EXCEPT ![c] = request]
    /\ pc' = [pc EXCEPT ![c] = "waiting"]
    /\ UNCHANGED <<parserVars, holder, poisoned, seen, alive, finished, given, dropped>>

(* Mutants: the lock does not exclude; poison is ignored. *)
AvailableToAll == ~poisoned
AvailableThoughPoisoned == holder = Nobody

MutexAvailable == holder = Nobody /\ ~poisoned

(* lock_parser gets the guard. *)
Lock(c) ==
    /\ pc[c] = "waiting" /\ MutexAvailable
    /\ holder' = c
    /\ pc' = [pc EXCEPT ![c] = "locked"]
    /\ UNCHANGED <<parserVars, poisoned, call, seen, calls, alive, finished, given, dropped>>

(* Mutant: the guard of a killed process is not dropped. *)
UnlockIfAlive(c) == IF holder = c /\ alive[c] THEN Nobody ELSE holder

Unlock(c) == IF holder = c THEN Nobody ELSE holder

(* The call ends; the guard is dropped. *)
Leave(c) ==
    /\ holder' = Unlock(c)
    /\ pc' = [pc EXCEPT ![c] = "ready"]
    /\ call' = [call EXCEPT ![c] = NoCall]
    /\ seen' = [seen EXCEPT ![c] = <<>>]
    /\ UNCHANGED <<calls, alive>>

(* The rows the call returns, to a process that may have been killed. *)
Return(c, rows) ==
    IF alive[c]
    THEN given' = [given EXCEPT ![c] = @ \o rows] /\ UNCHANGED dropped
    ELSE dropped' = dropped \cup ToSet(rows) /\ UNCHANGED given

(* lock_parser finds the mutex poisoned: the call raises :mutex_poisoned. *)
LockPoisoned(c) ==
    /\ pc[c] = "waiting" /\ poisoned
    /\ Leave(c)
    /\ UNCHANGED <<parserVars, poisoned, finished, given, dropped>>

(* A call that a strict parser answers with the violation. *)
Malformed(c) ==
    /\ pc[c] = "locked"
    /\ call[c].op = "next_rows" /\ Refused(FALSE)
    /\ Leave(c)
    /\ UNCHANGED <<parserVars, poisoned, finished, given, dropped>>

(* The rows a call finds in the parser. *)
RowsFor(request) ==
    IF request.op = "next_rows" THEN FirstNames(request.max)
    ELSE IF request.op = "status" THEN NamesUpTo(Ended)
    ELSE IF request.op = "finalize" THEN NamesUpTo(All)
    ELSE <<>>

(* A call reads the parser. *)
Read(c) ==
    /\ pc[c] = "locked"
    /\ call[c].op = "next_rows" => ~Refused(FALSE)
    /\ seen' = [seen EXCEPT ![c] = RowsFor(call[c])]
    /\ pc' = [pc EXCEPT ![c] = "acting"]
    /\ UNCHANGED <<parserVars, holder, poisoned, call, calls, alive, finished, given, dropped>>

FeedChunk(c) ==
    /\ pc[c] = "acting" /\ call[c].op = "feed"
    /\ text' = text \o call[c].chunk
    /\ Leave(c)
    /\ UNCHANGED <<taken, strict, poisoned, finished, given, dropped>>

(* take_rows: as many rows as were counted leave the queue. *)
TakeRows(c) ==
    /\ pc[c] = "acting" /\ call[c].op = "next_rows"
    /\ taken' = taken + Len(seen[c])
    /\ Return(c, seen[c])
    /\ Leave(c)
    /\ UNCHANGED <<text, strict, poisoned, finished>>

Status(c) ==
    /\ pc[c] = "acting" /\ call[c].op = "status"
    /\ Leave(c)
    /\ UNCHANGED <<parserVars, poisoned, finished, given, dropped>>

(* The rows left are returned, unless the text is malformed. *)
FinalizeText(c) ==
    /\ pc[c] = "acting" /\ call[c].op = "finalize"
    /\ text' = <<>> /\ taken' = 0
    /\ finished' = Append(finished, All)
    /\ IF Refused(TRUE)
       THEN dropped' = dropped \cup ToSet(seen[c]) /\ UNCHANGED given
       ELSE Return(c, seen[c])
    /\ Leave(c)
    /\ UNCHANGED <<strict, poisoned>>

(* A panic unwinds through the guard, which poisons the mutex.  What it     *)
(* leaves of the parser does not matter: no later call gets to see it.     *)
Panic(c) ==
    /\ pc[c] \in {"locked", "acting"}
    /\ poisoned' = TRUE
    /\ Leave(c)
    /\ UNCHANGED <<parserVars, finished, given, dropped>>

(* An exit signal: no more calls of this process. *)
Kill(c) ==
    /\ alive[c]
    /\ alive' = [alive EXCEPT ![c] = FALSE]
    /\ UNCHANGED <<parserVars, holder, poisoned, pc, call, seen, calls, finished, given, dropped>>

Requests == FeedCalls \cup NextRowsCalls \cup OtherCalls

(* A call in progress. *)
Step(c) ==
    \/ Lock(c) \/ LockPoisoned(c)
    \/ Malformed(c) \/ Read(c)
    \/ FeedChunk(c) \/ TakeRows(c) \/ Status(c) \/ FinalizeText(c)

Next ==
    \E c \in Clients :
        \/ \E request \in Requests : Invoke(c, request)
        \/ Step(c)
        \/ Panic(c)
        \/ Kill(c)

Spec == Init /\ [][Next]_vars

(* The operating system runs the threads of the dirty schedulers. *)
FairSpec == Spec /\ \A c \in Clients : WF_vars(Step(c))

-----------------------------------------------------------------------------
(* Properties. *)

TypeOK ==
    /\ text \in Seq(Byte)
    /\ holder \in Clients \cup {Nobody}
    /\ poisoned \in BOOLEAN
    /\ pc \in [Clients -> {"ready", "waiting", "locked", "acting"}]
    /\ call \in [Clients -> Requests \cup {NoCall}]
    /\ taken \in 0..Ended
    /\ calls \in 0..MaxCalls
    /\ alive \in [Clients -> BOOLEAN]
    /\ finished \in Seq(Nat)

(* What a call has read of the parser still holds when it acts on it: the  *)
(* rows it counted are the next ones, a row that is partial is still so,   *)
(* and a strict parser it found well formed has not been fed a violation.  *)
ActsOnWhatItRead ==
    \A c \in Clients : pc[c] = "acting" =>
        /\ seen[c] = RowsFor(call[c])
        /\ call[c].op = "next_rows" => ~Refused(FALSE)

(* The rows that left the parser; and those that should have: all rows of  *)
(* the texts closed so far, and as many of the text that is fed as are     *)
(* taken.                                                                  *)
Names == dropped \cup (UNION {ToSet(given[c]) : c \in Clients})

TakenNames ==
    (UNION {{<<n, k>> : k \in 1..finished[n]} : n \in DOMAIN finished})
      \cup {<<epoch, k>> : k \in 1..taken}

(* Whoever calls what and when, and whoever is killed: each row of each    *)
(* text closed so far, and each row taken of the current one, was given to *)
(* one process or dropped, and to one only, once.  It is dropped only when *)
(* a process was killed or a text refused.                                 *)
EveryRowOnce ==
    /\ Names = TakenNames
    /\ \A c, d \in Clients : \A i \in DOMAIN given[c], j \in DOMAIN given[d] :
          given[c][i] = given[d][j] => c = d /\ i = j
    /\ \A c \in Clients : ToSet(given[c]) \cap dropped = {}
    /\ dropped # {} => strict \/ \E c \in Clients : ~alive[c]

(* Each process gets the rows it gets in the order of the text.            *)
RowsInOrder ==
    \A c \in Clients : \A i \in 2..Len(given[c]) :
        LET x == given[c][i - 1]
            y == given[c][i]
        IN  x[1] < y[1] \/ (x[1] = y[1] /\ x[2] < y[2])

(* After a panic under the lock no call changes the parser or returns rows *)
(* of it any more.                                                         *)
PoisonedIsFinal == [][poisoned => poisoned' /\ UNCHANGED <<parserVars, given, dropped>>]_vars

(* Every call comes back, also when a process is killed inside the lock,   *)
(* when the lock is poisoned, and without any fairness of the lock.        *)
EveryCallEnds == \A c \in Clients : pc[c] # "ready" ~> pc[c] = "ready"
=============================================================================
