---------------------------- MODULE ProcessStdin ----------------------------
(***************************************************************************)
(* The pipes between the native daemon and one CLI (native/process.go).    *)
(*                                                                         *)
(* Desktop's writeStdin calls write messages to the CLI's stdin, each from *)
(* a goroutine of its own, which a call that has waited ten seconds leaves *)
(* behind.  The readers of stdout and stderr forward lines to Desktop as   *)
(* events, except present_files requests, which they answer themselves on  *)
(* the same stdin, under the same mutex lp.mu and without a time limit.    *)
(* The exit is reported when both readers have come to the end.            *)
(*                                                                         *)
(* External: the pipes hold a bounded number of pieces; a message is two   *)
(* pieces, so that a write can stop half-way; a CLI blocked on its own     *)
(* output reads nothing; it may stop reading for good; it dies at any      *)
(* time, and a write to a dead CLI fails.                                  *)
(***************************************************************************)
EXTENDS Naturals, Sequences

CONSTANTS
    Calls,        \* writeStdin calls, one message each
    Streams,      \* the output streams, stdout and stderr
    MaxLines,     \* bound: lines that the CLI writes
    InCap,        \* pieces that the stdin pipe holds
    OutCap        \* lines that an output pipe holds

\* Pipes hold something; calls, streams and lines are told apart by their names.
ASSUME ConstantsAssumption ==
    /\ MaxLines \in Nat /\ {InCap, OutCap} \subseteq Nat \ {0}
    /\ Calls \cap (Streams \cup 1..MaxLines) = {}
    /\ "nothing" \notin Calls \cup Streams

VARIABLES
    cli,          \* what the CLI does: "reads", "hangs" or "dead"
    blocked,      \* the line it is writing and its stream, if any (a sequence)
    lines,        \* how many lines it has begun
    stdin,        \* the pieces in the stdin pipe
    received,     \* the pieces that the CLI has read
    output,       \* the lines in each output pipe
    mu,           \* the writer that holds lp.mu
    write,        \* how far each writer is with its message
    handling,     \* the request that each reader answers (0: none)
    ended,        \* the readers that have come to the end
    done,         \* lp.done is closed, the exit event emitted
    call,         \* what has become of each call
    \* history, read by the properties only:
    forwarded,    \* the requests that were passed on to Desktop
    after         \* the calls that had succeeded when each call began

vars == <<cli, blocked, lines, stdin, received, output, mu, write, handling,
          ended, done, call, forwarded, after>>

cliVars == <<cli, blocked, lines>>
readerVars == <<output, handling, ended, done, forwarded>>
callVars == <<call, after>>

Nothing == "nothing"
Writers == Calls \cup Streams
Line == [stream : Streams, id : 1..MaxLines, kind : {"request", "other"}]
\* Pieces carry the message they belong to: a call, or the answer to a request.
Message(w) == IF w \in Calls THEN w ELSE handling[w]
Piece(m, part) == [of |-> m, part |-> part]
Pieces == {Piece(m, part) : m \in Calls \cup 1..MaxLines, part \in 1..2}

(***************************************************************************)
(* A write to stdin under lp.mu, by a call's goroutine or a reader.        *)
(***************************************************************************)

\* Mutation: the mutex is not taken.
Mut_Lock(w) ==
    /\ write[w] = "lock"
    /\ mu' = mu
    /\ write' = [write EXCEPT ![w] = "first"]
    /\ UNCHANGED <<cliVars, stdin, received, readerVars, callVars>>

Lock(w) ==
    /\ write[w] = "lock" /\ mu = Nothing
    /\ mu' = w
    /\ write' = [write EXCEPT ![w] = "first"]
    /\ UNCHANGED <<cliVars, stdin, received, readerVars, callVars>>

\* Mutation: the mutex is not unlocked.
Mut_WritePiece(w) ==
    /\ write[w] \in {"first", "second"}
    /\ cli # "dead" /\ Len(stdin) < InCap
    /\ stdin' = Append(stdin, Piece(Message(w), IF write[w] = "first" THEN 1 ELSE 2))
    /\ write' = [write EXCEPT ![w] = IF @ = "first" THEN "second" ELSE "written"]
    /\ UNCHANGED <<cliVars, mu, received, readerVars, callVars>>

WritePiece(w) ==
    /\ write[w] \in {"first", "second"}
    /\ cli # "dead" /\ Len(stdin) < InCap
    /\ stdin' = Append(stdin, Piece(Message(w), IF write[w] = "first" THEN 1 ELSE 2))
    /\ write' = [write EXCEPT ![w] = IF @ = "first" THEN "second" ELSE "written"]
    /\ mu' = IF write[w] = "first" THEN mu ELSE Nothing
    /\ UNCHANGED <<cliVars, received, readerVars, callVars>>

WriteBreaks(w) ==
    /\ write[w] \in {"first", "second"} /\ cli = "dead"
    /\ write' = [write EXCEPT ![w] = "failed"]
    /\ mu' = Nothing
    /\ UNCHANGED <<cliVars, stdin, received, readerVars, callVars>>

(***************************************************************************)
(* writeStdin.                                                             *)
(***************************************************************************)

Succeeded == {c \in Calls : call[c] = "ok"}

writeStdin(c) ==
    /\ call[c] = "none"
    /\ IF done
       THEN call' = [call EXCEPT ![c] = "error"] /\ write' = write
       ELSE /\ call' = [call EXCEPT ![c] = "waits"]
            /\ write' = [write EXCEPT ![c] = "lock"]
    /\ after' = [after EXCEPT ![c] = Succeeded]
    /\ UNCHANGED <<cliVars, stdin, received, mu, readerVars>>

Return(c, result) ==
    /\ call[c] = "waits"
    /\ call' = [call EXCEPT ![c] = result]
    /\ UNCHANGED <<cliVars, stdin, received, mu, write, readerVars, after>>

Written(c) == write[c] = "written" /\ Return(c, "ok")
Failed(c) == write[c] = "failed" /\ Return(c, "error")
Exited(c) == done /\ Return(c, "error")
\* The goroutine goes on: the message may still be written.
TimedOut(c) == Return(c, "error")

(***************************************************************************)
(* streamOutput and tryHandlePresentFiles.                                 *)
(***************************************************************************)

streamOutput(s) ==
    /\ handling[s] = 0 /\ output[s] # <<>>
    /\ output' = [output EXCEPT ![s] = Tail(@)]
    /\ IF Head(output[s]).kind = "request"
       THEN /\ handling' = [handling EXCEPT ![s] = Head(output[s]).id]
            /\ write' = [write EXCEPT ![s] = "lock"]
       ELSE UNCHANGED <<handling, write>>
    /\ UNCHANGED <<cliVars, stdin, received, mu, ended, done, forwarded, callVars>>

\* Mutation: the request is forgotten before it is passed on.
Mut_HandlePresentFiles(s) ==
    /\ handling[s] # 0 /\ write[s] \in {"written", "failed"}
    /\ handling' = [handling EXCEPT ![s] = 0]
    /\ forwarded' = IF write[s] = "failed" THEN forwarded \cup {handling'[s]}
                    ELSE forwarded
    /\ write' = [write EXCEPT ![s] = "none"]
    /\ UNCHANGED <<cliVars, stdin, received, mu, output, ended, done, callVars>>

\* Answered; or, when the answer cannot be written, passed on to Desktop.
HandlePresentFiles(s) ==
    /\ handling[s] # 0 /\ write[s] \in {"written", "failed"}
    /\ forwarded' = IF write[s] = "failed" THEN forwarded \cup {handling[s]}
                    ELSE forwarded
    /\ handling' = [handling EXCEPT ![s] = 0]
    /\ write' = [write EXCEPT ![s] = "none"]
    /\ UNCHANGED <<cliVars, stdin, received, mu, output, ended, done, callVars>>

EndOfStream(s) ==
    /\ cli = "dead" /\ output[s] = <<>> /\ handling[s] = 0 /\ s \notin ended
    /\ ended' = ended \cup {s}
    /\ UNCHANGED <<cliVars, stdin, received, mu, write, output, handling, done,
                   forwarded, callVars>>

\* wg.Wait and c.Wait return; the exit event; close(lp.done).
ReportExit ==
    /\ ended = Streams /\ ~done
    /\ done' = TRUE
    /\ UNCHANGED <<cliVars, stdin, received, mu, write, output, handling, ended,
                   forwarded, callVars>>

(***************************************************************************)
(* The CLI.                                                                *)
(***************************************************************************)

CliBegins(s) ==
    /\ cli = "reads" /\ blocked = <<>> /\ lines < MaxLines
    /\ lines' = lines + 1
    /\ \E kind \in {"request", "other"} :
           blocked' = <<[stream |-> s, id |-> lines + 1, kind |-> kind]>>
    /\ UNCHANGED <<cli, stdin, received, mu, write, readerVars, callVars>>

CliWrites ==
    /\ cli # "dead" /\ blocked # <<>>
    /\ LET line == Head(blocked)
       IN  /\ Len(output[line.stream]) < OutCap
           /\ output' = [output EXCEPT ![line.stream] = Append(@, line)]
    /\ blocked' = <<>>
    /\ UNCHANGED <<cli, lines, stdin, received, mu, write, handling, ended, done,
                   forwarded, callVars>>

CliReads ==
    /\ cli = "reads" /\ blocked = <<>> /\ stdin # <<>>
    /\ received' = Append(received, Head(stdin))
    /\ stdin' = Tail(stdin)
    /\ UNCHANGED <<cliVars, mu, write, readerVars, callVars>>

CliHangs ==
    /\ cli = "reads"
    /\ cli' = "hangs"
    /\ UNCHANGED <<blocked, lines, stdin, received, mu, write, readerVars, callVars>>

CliDies ==
    /\ cli # "dead"
    /\ cli' = "dead" /\ blocked' = <<>>
    /\ UNCHANGED <<lines, stdin, received, mu, write, readerVars, callVars>>

(***************************************************************************)
(* Specification.                                                          *)
(***************************************************************************)

Init ==
    /\ cli = "reads" /\ blocked = <<>> /\ lines = 0
    /\ stdin = <<>> /\ received = <<>>
    /\ output = [s \in Streams |-> <<>>]
    /\ mu = Nothing
    /\ write = [w \in Writers |-> "none"]
    /\ handling = [s \in Streams |-> 0]
    /\ ended = {} /\ done = FALSE
    /\ call = [c \in Calls |-> "none"]
    /\ forwarded = {}
    /\ after = [c \in Calls |-> {}]

Goroutine(w) == Lock(w) \/ WritePiece(w) \/ WriteBreaks(w)
Reader(s) == Goroutine(s) \/ streamOutput(s) \/ HandlePresentFiles(s)
             \/ EndOfStream(s)
Answer(c) == Written(c) \/ Failed(c) \/ Exited(c) \/ TimedOut(c)

Next ==
    \/ \E c \in Calls : writeStdin(c) \/ Goroutine(c) \/ Answer(c)
    \/ \E s \in Streams : Reader(s) \/ CliBegins(s)
    \/ CliWrites \/ CliReads \/ CliHangs \/ CliDies \/ ReportExit

\* Goroutines run, and sync.Mutex hands itself to one that has waited for a
\* millisecond; the CLI's own write ends and it goes on reading, unless it
\* hangs.  Nothing makes it die, and nothing makes Desktop call.
Fairness ==
    /\ \A w \in Writers : SF_vars(Lock(w)) /\ WF_vars(WritePiece(w) \/ WriteBreaks(w))
    /\ \A s \in Streams : WF_vars(streamOutput(s) \/ HandlePresentFiles(s)
                                  \/ EndOfStream(s))
    /\ \A c \in Calls : WF_vars(Answer(c))
    /\ WF_vars(CliWrites) /\ WF_vars(CliReads) /\ WF_vars(ReportExit)

Spec == Init /\ [][Next]_vars /\ Fairness

TypeOK ==
    /\ cli \in {"reads", "hangs", "dead"}
    /\ blocked \in Seq(Line) /\ Len(blocked) <= 1
    /\ lines \in 0..MaxLines
    /\ stdin \in Seq(Pieces) /\ Len(stdin) <= InCap
    /\ received \in Seq(Pieces)
    /\ output \in [Streams -> Seq(Line)]
    /\ mu \in Writers \cup {Nothing}
    /\ write \in [Writers -> {"none", "lock", "first", "second",
                              "written", "failed"}]
    /\ handling \in [Streams -> 0..MaxLines]
    /\ ended \subseteq Streams /\ done \in BOOLEAN
    /\ call \in [Calls -> {"none", "waits", "ok", "error"}]
    /\ forwarded \subseteq 1..MaxLines
    /\ after \in [Calls -> SUBSET Calls]

(***************************************************************************)
(* Properties.                                                             *)
(***************************************************************************)

Sent == received \o stdin
HasAnswer(id) == \E i \in DOMAIN Sent : Sent[i] = Piece(id, 2)

\* Messages are whole, whoever writes them; only the last may be unfinished.
Whole ==
    /\ \A i \in DOMAIN Sent : Sent[i].part = IF i % 2 = 1 THEN 1 ELSE 2
    /\ \A i \in DOMAIN Sent : i % 2 = 0 => Sent[i].of = Sent[i - 1].of

\* A message whose call began after another call had succeeded comes behind it.
InOrder ==
    \A c \in Calls, i \in DOMAIN Sent :
        Sent[i].of = c => \A b \in after[c] :
                             \E j \in DOMAIN Sent : j < i /\ Sent[j] = Piece(b, 2)

\* A present_files request has one answer: the daemon's, or Desktop's when the
\* daemon could not write its own.
OneAnswer ==
    /\ \A id \in forwarded : ~HasAnswer(id)
    /\ \A i, j \in DOMAIN Sent :
           Sent[i] = Sent[j] /\ Sent[i].of \in 1..MaxLines => i = j

\* What reaches the CLI makes sense to it, although calls that timed out still
\* write, readers write between them and the CLI may stop or die in the middle.
StdinMakesSense == Whole /\ InOrder /\ OneAnswer

\* The reader cannot write because stdin is full, and the CLI does not empty it
\* because it hangs or is blocked on the output that the reader does not read.
Jammed ==
    /\ Len(stdin) = InCap
    /\ cli = "hangs" \/ blocked # <<>>

\* A request is answered or passed on in the end, whatever calls time out
\* meanwhile and also when the CLI dies, unless the pipes are jammed for good: the
\* only way to stay silent, as the answer has no time limit.
RequestsSettled ==
    \A s \in Streams : handling[s] # 0 ~> handling[s] = 0 \/ []Jammed

=============================================================================
