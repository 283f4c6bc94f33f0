------------------------------- MODULE StreamLog -------------------------------
(***************************************************************************)
(* The log row of a streamed reply.  The handler inserts it when the        *)
(* upstream's headers are there and returns a body; the body, polled by the *)
(* server as the client takes it, reads usage and the first token from the  *)
(* passing lines and completes the row when it ends: the body of proxy.rs   *)
(* in the destructor of a guard (logs.rs), that of messages.rs by a         *)
(* statement after its loop.  Meanwhile rows are cleared, writes fail,      *)
(* clients hang up and the process restarts.                                *)
(*                                                                          *)
(* A line counts once its newline is there: the buffer that holds the rest  *)
(* of a chunk shows nowhere else, and a chunk of several lines is scanned   *)
(* like one after another.  Times are positions in the stream.              *)
(***************************************************************************)
EXTENDS Integers, Sequences, FiniteSetsExt

CONSTANTS
    Stream,     \* streamed calls
    Native,     \* those of proxy.rs, the others are of messages.rs
    Field,      \* prompt, completion, cached and cache creation tokens
    Line,       \* bound: the lines an upstream sends
    MaxLines    \* bound: how many of them in one stream

Null == 0
Usage == [Field -> Nat]
NoUsage == [f \in Field |-> Null]

\* What the two scanners see in a line: its delta and its usage, if any.
LineType == [delta: {"none", "text", "other"}, usage: Usage]

ASSUME StreamAssumption == Native \subseteq Stream
ASSUME LineAssumption == Line \subseteq LineType
ASSUME BoundAssumption == MaxLines \in Nat

VARIABLES
    row,        \* the stream's row in request_logs
    body,       \* the body, with what it has gathered
    sent        \* the full lines the body has taken from the upstream

vars == <<row, body, sent>>

Row == [present: BOOLEAN, final: BOOLEAN, first: 0..MaxLines, usage: Usage]
Absent == [present |-> FALSE, final |-> FALSE, first |-> Null, usage |-> NoUsage]
Body == [pc: {"new", "ready", "open", "closed"},
         end: {"none", "unpolled", "eof", "error", "hangup", "fault", "restart"},
         first: 0..MaxLines, usage: Usage]

\* Every variable has its type, a row that is not there says nothing, and only
\* a body that has ended has completed its row.
TypeOK ==
    /\ row \in [Stream -> Row] /\ body \in [Stream -> Body]
    /\ sent \in [Stream -> Seq(Line)]
    /\ \A s \in Stream :
        /\ Len(sent[s]) <= MaxLines
        /\ ~row[s].present => row[s] = Absent
        /\ body[s].pc = "closed" <=> body[s].end # "none"
        /\ row[s].final => body[s].end \in {"eof", "error", "hangup"}

Init ==
    /\ row = [s \in Stream |-> Absent]
    /\ body = [s \in Stream |-> [pc |-> "new", end |-> "none",
                                 first |-> Null, usage |-> NoUsage]]
    /\ sent = [s \in Stream |-> <<>>]

-----------------------------------------------------------------------------
(* The body. *)

Goto(s, p) == body' = [body EXCEPT ![s].pc = p]
EndWith(s, e) == body' = [body EXCEPT ![s].pc = "closed", ![s].end = e]

\* Slip: the guard is made outside the generator and dropped with the handler.
BeginGuardOutside(s, logged) ==
    /\ body[s].pc = "new"
    /\ row' = IF logged THEN [row EXCEPT ![s].present = TRUE, ![s].final = TRUE]
                        ELSE row
    /\ Goto(s, "ready")
    /\ UNCHANGED sent

\* insert_log; a failed insert leaves the body without an id to complete.
Begin(s, logged) ==
    /\ body[s].pc = "new"
    /\ row' = IF logged THEN [row EXCEPT ![s].present = TRUE] ELSE row
    /\ Goto(s, "ready")
    /\ UNCHANGED sent

\* Nothing in the body runs before its first poll.
Poll(s) == body[s].pc = "ready" /\ Goto(s, "open") /\ UNCHANGED <<row, sent>>
DropUnpolled(s) ==
    /\ body[s].pc = "ready"
    /\ EndWith(s, "unpolled")
    /\ UNCHANGED <<row, sent>>

\* Slip: the newer report replaces, and erases what it does not name.
MergeReplacing(old, new) == new

\* Usage::merge.
Merge(old, new) == [f \in Field |-> IF new[f] # Null THEN new[f] ELSE old[f]]

\* The line is the first with output: for messages.rs only text is.
IsFirst(s, l) ==
    /\ body[s].first = Null
    /\ IF s \in Native THEN l.delta # "none" ELSE l.delta = "text"

\* messages.rs keeps the newest report and none of the older ones.
Gather(s, l) ==
    [body[s] EXCEPT
        !.first = IF IsFirst(s, l) THEN Len(sent[s]) + 1 ELSE @,
        !.usage = IF l.usage = NoUsage THEN @
                  ELSE IF s \in Native THEN Merge(@, l.usage) ELSE l.usage]

Receive(s, l) ==
    /\ body[s].pc = "open" /\ Len(sent[s]) < MaxLines
    /\ sent' = [sent EXCEPT ![s] = Append(@, l)]
    /\ body' = [body EXCEPT ![s] = Gather(s, l)]
    /\ UNCHANGED row

\* Slip: the write inserts the row it does not find.
CompletedAnyway(s) ==
    [row EXCEPT ![s] = [present |-> TRUE, final |-> TRUE, first |-> body[s].first,
                        usage |-> Merge(@.usage, body[s].usage)]]

\* finalize_stream_log, an UPDATE with COALESCE.
Completed(s) ==
    IF row[s].present
    THEN [row EXCEPT ![s].final = TRUE,
                     ![s].first = IF body[s].first # Null THEN body[s].first ELSE @,
                     ![s].usage = Merge(@, body[s].usage)]
    ELSE row

\* Both bodies complete the row; the write may fail, which is only logged.
Finish(s, e, stored) ==
    /\ body[s].pc = "open"
    /\ row' = IF stored THEN Completed(s) ELSE row
    /\ EndWith(s, IF stored THEN e ELSE "fault")
    /\ UNCHANGED sent

\* Slip: only a stream that runs to its end completes its row.
HangUpUnlogged(s, stored) ==
    /\ body[s].pc = "open"
    /\ EndWith(s, IF stored THEN "hangup" ELSE "fault")
    /\ UNCHANGED <<row, sent>>

\* The server drops the body.  The guard's destructor runs; code after the loop
\* of messages.rs does not.
HangUp(s, stored) ==
    /\ body[s].pc = "open"
    /\ row' = IF s \in Native /\ stored THEN Completed(s) ELSE row
    /\ EndWith(s, IF stored THEN "hangup" ELSE "fault")
    /\ UNCHANGED sent

-----------------------------------------------------------------------------
(* The rest of the program. *)

Clear == row' = [s \in Stream |-> Absent] /\ UNCHANGED <<body, sent>>

\* No destructor runs in a process that is killed.
Restart ==
    /\ body' = [s \in Stream |->
                  IF body[s].pc \in {"ready", "open"}
                  THEN [body[s] EXCEPT !.pc = "closed", !.end = "restart"]
                  ELSE body[s]]
    /\ UNCHANGED <<row, sent>>

Next ==
    \/ \E s \in Stream :
        \/ Poll(s) \/ DropUnpolled(s)
        \/ \E l \in Line : Receive(s, l)
        \/ \E ok \in BOOLEAN : \/ Begin(s, ok) \/ HangUp(s, ok)
                               \/ \E e \in {"eof", "error"} : Finish(s, e, ok)
    \/ Clear
    \/ Restart

Spec == Init /\ [][Next]_vars

-----------------------------------------------------------------------------
(* Properties. *)

Reports(s, f) == {i \in DOMAIN sent[s] : sent[s][i].usage[f] # Null}

\* The last count of each kind that the upstream gave in the stream.
LastTold(s) ==
    [f \in Field |-> IF Reports(s, f) = {} THEN Null
                     ELSE sent[s][Max(Reports(s, f))].usage[f]]

Outputs(s) ==
    {i \in DOMAIN sent[s] : IF s \in Native THEN sent[s][i].delta # "none"
                                            ELSE sent[s][i].delta = "text"}
FirstOutput(s) == IF Outputs(s) = {} THEN Null ELSE Min(Outputs(s))

\* Each report of the upstream names whatever an earlier one did.
Cumulative(s) ==
    \A f \in Field, i, j \in DOMAIN sent[s] :
        i < j /\ sent[s][j].usage # NoUsage /\ i \in Reports(s, f)
        => j \in Reports(s, f)

\* logs.rs:304-315, messages.rs:386-391: a completed row has the last count of
\* each kind, however it was split over the stream, and the time of the first
\* output; messages.rs needs reports that repeat the counts before them.
CompletedRowIsExact ==
    \A s \in Stream : row[s].final =>
        /\ row[s].first = FirstOutput(s)
        /\ s \in Native \/ Cumulative(s) => row[s].usage = LastTold(s)

\* logs.rs:279, the guard lives until the body completes or is dropped: whoever
\* ends a stream of proxy.rs that has begun, its row is complete, cleared, or
\* was never inserted.
EndedStreamIsComplete ==
    \A s \in Native :
        body[s].end \in {"eof", "error", "hangup"} /\ row[s].present => row[s].final

\* A row that is cleared, or was not inserted, is not brought back by the body
\* that still runs (db.rs:892).
ClearedRowStaysAway ==
    [][\A s \in Stream : body[s].pc # "new" /\ ~row[s].present => ~row'[s].present]_vars

\* db.rs:879, "Finalize timing and usage after a streaming response has ended":
\* a client that hangs up ends the response, whichever handler made it.
HungUpStreamIsComplete ==
    \A s \in Stream : body[s].end = "hangup" /\ row[s].present => row[s].final
=============================================================================
