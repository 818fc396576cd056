------------------------------- MODULE Sandbox -------------------------------
(***************************************************************************)
(* execute() of execution/sandbox.py and what run_one does with it: the    *)
(* build command, the verification command, the streams and the report     *)
(* they leave, for one attempt.  The main thread, two reader threads per   *)
(* command and the processes of the commands interleave.                   *)
(*                                                                         *)
(* Output is counted in units.  A command is its first process (leader),   *)
(* one that stays in its group and one that left it; the two may outlive   *)
(* it, since the group is killed only when the command times out.          *)
(*                                                                         *)
(* proc.stdout is a buffered reader: read(65536) returns a full chunk, or  *)
(* what is there once all ends of the pipe are closed.  A thread whose     *)
(* pipe is closed finishes within the five seconds of join().              *)
(*                                                                         *)
(* The processes write the report, which is theirs to write.  They are     *)
(* assumed to keep away from capture/, which nothing protects: it is next  *)
(* to their working directory, they run as the worker's user, and run_one  *)
(* reads the logs back from there.                                         *)
(***************************************************************************)
EXTENDS Naturals, FiniteSets

CONSTANTS
    Stream,             \* {"stdout", "stderr"}
    Chunk,              \* 65536
    Caps,               \* values of max_capture_bytes
    Output,             \* Output[c][s]: bound on what a command prints
    Forked,             \* Forked[c]: processes it may leave behind
    Report,             \* contents of the report file
    Oversized,          \* those that are longer than the cap
    Nil

Command == {"build", "verify"}
Member == {"leader", "member", "escaped"}
ExitCode == {0, 1}
Failed == 2             \* exit code -1

ASSUME SandboxAssumption ==
    /\ Stream = {"stdout", "stderr"}
    /\ Chunk \in Nat \ {0} /\ Caps \subseteq Nat \ {0}
    /\ Output \in [Command -> [Stream -> Nat]]
    /\ Forked \in [Command -> SUBSET {"member", "escaped"}]
    /\ Oversized \subseteq Report /\ Nil \notin Report /\ Nil \notin {0, 1, 2}

VARIABLES
    cap,                \* max_capture_bytes
    alive,              \* alive[c]: processes of the command
    holders,            \* holders[c]: those that hold its pipes open
    status,             \* status[c]: exit code of its leader, or Nil
    printed,            \* printed[c][s]: written to the pipe
    reader,             \* reader[c][s]: the thread that reads it
    truncated,          \* truncated[c]: the flag the two threads share
    main,               \* the thread of run_one
    capture,            \* capture[c]: what execute() returned
    log,                \* log[s]: the file capture/<s>.log
    report,             \* the report file
    attempt             \* what run_one records and grades

sandboxVars == <<cap, alive, holders, status, printed, reader, truncated, main, capture, log,
                 report, attempt>>
processVars == <<cap, alive, holders, status, printed, report>>

ReaderState == [pc : {"none", "reading", "ended"}, taken : Nat, buf : Nat]

\* pc is the next step of execute(), or of run_one after it.  late: the streams
\* whose join() timed out, and left: a process lives on when execute() returns,
\* neither of which the code asks for.
MainState == [pc : {"launch", "wait", "join_stdout", "join_stderr", "snapshot", "return",
                    "collect", "done"},
              command : Command, exit : ExitCode \cup {Failed, Nil}, timed_out : BOOLEAN,
              error : BOOLEAN, late : SUBSET Stream, bytes : [Stream -> Nat]]

CaptureState == [exit : ExitCode \cup {Failed}, timed_out : BOOLEAN, error : BOOLEAN,
                 truncated : BOOLEAN, late : SUBSET Stream, left : BOOLEAN,
                 bytes : [Stream -> Nat], report : Report \cup {Nil}]

\* capture[c] tells the two apart.
ASSUME NilAssumption == Nil \notin CaptureState

Least(a, b) == IF a <= b THEN a ELSE b

-----------------------------------------------------------------------------
(* The processes of a command.  They do as they please. *)

Running == main.pc # "done"

Emit(c, m, s) ==
    /\ Running /\ m \in holders[c]
    /\ printed[c][s] < Output[c][s]
    /\ printed' = [printed EXCEPT ![c][s] = @ + 1]
    /\ UNCHANGED <<cap, alive, holders, status, reader, truncated, main, capture, log, report,
                   attempt>>

\* A process writes the report, or removes it.
WriteReport(c, r) ==
    /\ Running /\ alive[c] # {}
    /\ report' = r
    /\ UNCHANGED <<cap, alive, holders, status, printed, reader, truncated, main, capture, log,
                   attempt>>

Fork(c, m) ==
    /\ Running /\ "leader" \in alive[c] /\ m \in Forked[c] \ alive[c]
    /\ alive' = [alive EXCEPT ![c] = @ \cup {m}]
    /\ \E holds \in BOOLEAN :
          holders' = IF holds THEN [holders EXCEPT ![c] = @ \cup {m}] ELSE holders
    /\ UNCHANGED <<cap, status, printed, reader, truncated, main, capture, log, report, attempt>>

Exit(c, m, code) ==
    /\ Running /\ m \in alive[c]
    /\ alive' = [alive EXCEPT ![c] = @ \ {m}]
    /\ holders' = [holders EXCEPT ![c] = @ \ {m}]
    /\ status' = IF m = "leader" THEN [status EXCEPT ![c] = code] ELSE status
    /\ UNCHANGED <<cap, printed, reader, truncated, main, capture, log, report, attempt>>

-----------------------------------------------------------------------------
(* The reader threads. *)

Waiting(c, s) == printed[c][s] - reader[c][s].taken

\* Mutant: no flag is set when the buffer was full before the chunk.
ReadChunkUnflagged(c, s) ==
    /\ reader[c][s].pc = "reading" /\ Waiting(c, s) > 0
    /\ Waiting(c, s) >= Chunk \/ holders[c] = {}
    /\ LET chunk == Least(Waiting(c, s), Chunk)
           remaining == cap - reader[c][s].buf
       IN /\ reader' = [reader EXCEPT ![c][s].taken = @ + chunk,
                                      ![c][s].buf = @ + Least(chunk, remaining)]
          /\ truncated' = [truncated EXCEPT ![c] = @ \/ (remaining > 0 /\ chunk > remaining)]
    /\ UNCHANGED <<processVars, main, capture, log, attempt>>

\* One turn of the loop of _reader: the chunk is taken, as far as there is room.
ReadChunk(c, s) ==
    /\ reader[c][s].pc = "reading" /\ Waiting(c, s) > 0
    /\ Waiting(c, s) >= Chunk \/ holders[c] = {}
    /\ LET chunk == Least(Waiting(c, s), Chunk)
           remaining == cap - reader[c][s].buf
       IN /\ reader' = [reader EXCEPT ![c][s].taken = @ + chunk,
                                      ![c][s].buf = @ + Least(chunk, remaining)]
          /\ truncated' = [truncated EXCEPT ![c] = @ \/ chunk > remaining]
    /\ UNCHANGED <<processVars, main, capture, log, attempt>>

\* End of file: the thread ends.
ReadEnd(c, s) ==
    /\ reader[c][s].pc = "reading" /\ Waiting(c, s) = 0 /\ holders[c] = {}
    /\ reader' = [reader EXCEPT ![c][s].pc = "ended"]
    /\ UNCHANGED <<processVars, truncated, main, capture, log, attempt>>

-----------------------------------------------------------------------------
(* execute() *)

At(pc, c) == main.pc = pc /\ main.command = c

Goto(pc) == main' = [main EXCEPT !.pc = pc]

\* Popen succeeds and the threads are started.
Launch(c) ==
    /\ At("launch", c)
    /\ alive' = [alive EXCEPT ![c] = {"leader"}]
    /\ holders' = [holders EXCEPT ![c] = {"leader"}]
    /\ reader' = [reader EXCEPT ![c] = [s \in Stream |-> [@[s] EXCEPT !.pc = "reading"]]]
    /\ Goto("wait")
    /\ UNCHANGED <<cap, status, printed, truncated, capture, log, report, attempt>>

\* An exception of Popen is kept as runtime_error; there is nothing to join.
LaunchFails(c) ==
    /\ At("launch", c)
    /\ main' = [main EXCEPT !.pc = "snapshot", !.exit = Failed, !.error = TRUE]
    /\ UNCHANGED <<processVars, reader, truncated, capture, log, attempt>>

\* So is that of a thread that cannot be started, the first or the second.  The
\* process runs on, and nobody waits for it or kills it.
ThreadFails(c) ==
    /\ At("launch", c)
    /\ alive' = [alive EXCEPT ![c] = {"leader"}]
    /\ holders' = [holders EXCEPT ![c] = {"leader"}]
    /\ \E started \in {{}, {"stdout"}} :
          reader' = [reader EXCEPT ![c] =
              [s \in Stream |-> IF s \in started THEN [@[s] EXCEPT !.pc = "reading"] ELSE @[s]]]
    /\ main' = [main EXCEPT !.pc = "snapshot", !.exit = Failed, !.error = TRUE]
    /\ UNCHANGED <<cap, status, printed, truncated, capture, log, report, attempt>>

WaitReturns(c) ==
    /\ At("wait", c) /\ status[c] # Nil
    /\ main' = [main EXCEPT !.pc = "join_stdout", !.exit = status[c]]
    /\ UNCHANGED <<processVars, reader, truncated, capture, log, attempt>>

\* TimeoutExpired: the group is killed, and whoever left it is not.
WaitExpires(c) ==
    /\ At("wait", c) /\ status[c] = Nil
    /\ alive' = [alive EXCEPT ![c] = @ \ {"leader", "member"}]
    /\ holders' = [holders EXCEPT ![c] = @ \ {"leader", "member"}]
    /\ main' = [main EXCEPT !.pc = "join_stdout", !.exit = Failed, !.timed_out = TRUE]
    /\ UNCHANGED <<cap, status, printed, reader, truncated, capture, log, report, attempt>>

JoinPc(s) == IF s = "stdout" THEN "join_stdout" ELSE "join_stderr"
AfterJoin(s) == IF s = "stdout" THEN "join_stderr" ELSE "snapshot"

Join(c, s) ==
    /\ At(JoinPc(s), c) /\ reader[c][s].pc = "ended"
    /\ Goto(AfterJoin(s))
    /\ UNCHANGED <<processVars, reader, truncated, capture, log, attempt>>

\* Mutant: join() without a timeout.
JoinForever(c, s) == FALSE

\* join(timeout=5) returns although a process that lives on holds the pipe.
JoinExpires(c, s) ==
    /\ At(JoinPc(s), c) /\ reader[c][s].pc = "reading" /\ holders[c] # {}
    /\ main' = [main EXCEPT !.pc = AfterJoin(s), !.late = @ \cup {s}]
    /\ UNCHANGED <<processVars, reader, truncated, capture, log, attempt>>

\* Mutant: a log that exists is kept.
SnapshotKeepsLog(c) ==
    /\ At("snapshot", c)
    /\ LET bytes == [s \in Stream |-> IF main.error THEN 0 ELSE reader[c][s].buf] IN
       /\ main' = [main EXCEPT !.pc = "return", !.bytes = bytes]
       /\ log' = [s \in Stream |-> IF bytes[s] > 0 /\ log[s] = Nil
                                   THEN [command |-> c, bytes |-> bytes[s]] ELSE log[s]]
    /\ UNCHANGED <<processVars, reader, truncated, capture, attempt>>

\* The buffers are copied, and each that is not empty is written to its log.
\* After a failed launch the copies are empty.
Snapshot(c) ==
    /\ At("snapshot", c)
    /\ LET bytes == [s \in Stream |-> IF main.error THEN 0 ELSE reader[c][s].buf] IN
       /\ main' = [main EXCEPT !.pc = "return", !.bytes = bytes]
       /\ log' = [s \in Stream |-> IF bytes[s] > 0 THEN [command |-> c, bytes |-> bytes[s]]
                                   ELSE log[s]]
    /\ UNCHANGED <<processVars, reader, truncated, capture, attempt>>

\* The report is looked at, and the capture is made with the flag as it is now.
\* A build that fails ends the attempt; else the verification follows.
Return(c) ==
    /\ At("return", c)
    /\ capture' = [capture EXCEPT ![c] =
           [exit |-> main.exit, timed_out |-> main.timed_out, error |-> main.error,
            truncated |-> truncated[c] \/ report \in Oversized,
            late |-> main.late, left |-> \E d \in Command : alive[d] # {},
            bytes |-> main.bytes, report |-> report]]
    /\ main' = IF c = "build" /\ main.exit = 0
               THEN [main EXCEPT !.pc = "launch", !.command = "verify", !.exit = Nil,
                                 !.late = {}, !.bytes = [s \in Stream |-> 0]]
               ELSE [main EXCEPT !.pc = "collect"]
    /\ UNCHANGED <<processVars, reader, truncated, log, attempt>>

-----------------------------------------------------------------------------
(* run_one, when execute() has returned *)

\* The logs and the report are stored, the report's bytes are graded, and their
\* digest takes the place of the one execute() computed.
Collect ==
    /\ main.pc = "collect"
    /\ attempt' = [log |-> log, report |-> report]
    /\ Goto("done")
    /\ UNCHANGED <<processVars, reader, truncated, capture, log>>

\* An exception leaves run_one, and there is no attempt: a log cannot be written
\* or an artifact stored, or the report is removed after is_file() and before
\* open(), in execute() or in run_one.
Raise ==
    /\ main.pc \in {"snapshot", "return", "collect"}
    /\ Goto("done")
    /\ UNCHANGED <<processVars, reader, truncated, capture, log, attempt>>

-----------------------------------------------------------------------------
SandboxInit ==
    /\ cap \in Caps
    /\ alive = [c \in Command |-> {}] /\ holders = [c \in Command |-> {}]
    /\ status = [c \in Command |-> Nil]
    /\ printed = [c \in Command |-> [s \in Stream |-> 0]]
    /\ reader = [c \in Command |-> [s \in Stream |-> [pc |-> "none", taken |-> 0, buf |-> 0]]]
    /\ truncated = [c \in Command |-> FALSE]
    /\ \E c \in Command :          \* with and without a build_command
          main = [pc |-> "launch", command |-> c, exit |-> Nil, timed_out |-> FALSE,
                  error |-> FALSE, late |-> {}, bytes |-> [s \in Stream |-> 0]]
    /\ capture = [c \in Command |-> Nil]
    /\ log = [s \in Stream |-> Nil]
    /\ report = Nil /\ attempt = Nil

Processes(c) ==
    \/ \E m \in Member, s \in Stream : Emit(c, m, s)
    \/ \E r \in Report \cup {Nil} : WriteReport(c, r)
    \/ \E m \in Member : Fork(c, m)
    \/ \E m \in Member, code \in ExitCode : Exit(c, m, code)

Read(c, s) == ReadChunk(c, s) \/ ReadEnd(c, s)

Main ==
    \/ \E c \in Command :
          \/ Launch(c) \/ LaunchFails(c) \/ ThreadFails(c) \/ WaitReturns(c) \/ WaitExpires(c)
          \/ \E s \in Stream : Join(c, s) \/ JoinExpires(c, s)
          \/ Snapshot(c) \/ Return(c)
    \/ Collect \/ Raise

SandboxNext ==
    \/ Main
    \/ \E c \in Command, s \in Stream : Read(c, s)
    \/ \E c \in Command : Processes(c)

SandboxSpec == SandboxInit /\ [][SandboxNext]_sandboxVars

\* The main thread and the reader threads run on; the processes need not.
FairSandbox ==
    /\ SandboxSpec
    /\ WF_sandboxVars(Main)
    /\ \A c \in Command, s \in Stream : WF_sandboxVars(Read(c, s))

-----------------------------------------------------------------------------
(* Properties *)

\* execute() returns what the command printed, up to the cap, with truncated set
\* if there was more, for each stream whose reader it has waited for; and
\* truncated is never set without cause.
CaptureIsHonest ==
    \A c \in Command : capture[c] # Nil /\ ~capture[c].error =>
        /\ \A s \in Stream \ capture[c].late :
              /\ capture[c].bytes[s] = Least(printed[c][s], cap)
              /\ printed[c][s] > cap => capture[c].truncated
        /\ \A s \in Stream : capture[c].bytes[s] <= Least(printed[c][s], cap)
        /\ capture[c].truncated =>
              capture[c].report \in Oversized \/ \E s \in Stream : printed[c][s] > cap

\* The evidence of an attempt is what its last command produced, although
\* threads and processes of both commands are at work until the end.  Of a stream
\* it printed to and execute() waited for, the log is its output up to the cap,
\* never that of the build before it.  And unless a process lived on when
\* execute() returned, the report that is graded is the one that execute() saw
\* and set truncated by.
EvidenceIsOutput ==
    attempt # Nil =>
        LET c == main.command IN
        /\ ~capture[c].error =>
              \A s \in Stream \ capture[c].late :
                  printed[c][s] > 0 =>
                      attempt.log[s] = [command |-> c, bytes |-> Least(printed[c][s], cap)]
        /\ ~capture[c].left => attempt.report = capture[c].report

\* An attempt ends, whatever its processes do: neither a command that never
\* ends nor a process that holds a pipe for ever blocks the worker.
AttemptEnds == <>(main.pc = "done")

-----------------------------------------------------------------------------
(* The inductive invariant. *)

SandboxTypeOK ==
    /\ cap \in Caps
    /\ alive \in [Command -> SUBSET Member] /\ holders \in [Command -> SUBSET Member]
    /\ status \in [Command -> ExitCode \cup {Nil}]
    /\ printed \in [Command -> [Stream -> Nat]]
    /\ reader \in [Command -> [Stream -> ReaderState]]
    /\ truncated \in [Command -> BOOLEAN]
    /\ main \in MainState
    /\ capture \in [Command -> CaptureState \cup {Nil}]
    /\ report \in Report \cup {Nil}

\* A thread holds what it has taken, up to the cap, and has ended only when the
\* pipe is closed and empty, which it then remains.
ReadersInv ==
    \A c \in Command :
        /\ "leader" \in alive[c] => "leader" \in holders[c]
        /\ \A s \in Stream :
              /\ reader[c][s].buf = Least(reader[c][s].taken, cap)
              /\ reader[c][s].taken <= printed[c][s]
              /\ reader[c][s].pc = "none" => reader[c][s].taken = 0
              /\ reader[c][s].pc = "ended" =>
                    holders[c] = {} /\ reader[c][s].taken = printed[c][s]
        /\ truncated[c] <=> \E s \in Stream : reader[c][s].taken > cap

\* How far execute() is with the command it runs, and that no other command
\* will be launched before.
MainInv ==
    LET c == main.command IN
    /\ main.pc \notin {"collect", "done"} =>
          /\ capture[c] = Nil
          /\ c = "build" => /\ capture["verify"] = Nil
                           /\ \A s \in Stream : reader["verify"][s].pc = "none"
    /\ main.pc = "launch" => \A s \in Stream : reader[c][s].pc = "none"
    /\ main.pc = "join_stderr" => "stdout" \in main.late \/ reader[c]["stdout"].pc = "ended"
    /\ main.pc \in {"snapshot", "return"} /\ ~main.error =>
          \A s \in Stream \ main.late : reader[c][s].pc = "ended"
    /\ main.pc = "return" /\ ~main.error =>
          \A s \in Stream : /\ main.bytes[s] <= reader[c][s].buf
                            /\ s \notin main.late => main.bytes[s] = reader[c][s].buf
    /\ main.error => /\ main.pc \in {"snapshot", "return", "collect", "done"}
                     /\ main.exit = Failed
    /\ main.pc \notin {"launch", "wait"} => main.exit # Nil

\* The readers that execute() waited for have ended.
CapturedInv ==
    \A c \in Command : capture[c] # Nil /\ ~capture[c].error =>
        \A s \in Stream \ capture[c].late : reader[c][s].pc = "ended"

SandboxInv ==
    /\ SandboxTypeOK
    /\ ReadersInv
    /\ MainInv
    /\ CapturedInv
    /\ CaptureIsHonest

Logged(logs, c, bytes) ==
    \A s \in Stream : bytes[s] > 0 => logs[s] = [command |-> c, bytes |-> bytes[s]]

\* What the last command left is in the logs and stays there until run_one reads
\* them; and without processes the report stays what it is.
LogInv ==
    LET c == main.command IN
    /\ main.pc = "return" => Logged(log, c, main.bytes)
    /\ main.pc = "collect" =>
          /\ Logged(log, c, capture[c].bytes)
          /\ ~capture[c].left => /\ \A d \in Command : alive[d] = {}
                                 /\ report = capture[c].report
    /\ main.pc = "collect" \/ attempt # Nil => capture[c] # Nil
    /\ attempt # Nil =>
          /\ main.pc = "done"
          /\ Logged(attempt.log, c, capture[c].bytes)
          /\ ~capture[c].left => attempt.report = capture[c].report

=============================================================================
