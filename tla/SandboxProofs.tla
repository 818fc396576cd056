---------------------------- MODULE SandboxProofs ----------------------------
(***************************************************************************)
(* What execute() returns is honest for any sizes of chunk, cap and output *)
(* and whatever the processes of the commands do.  The argument: a reader  *)
(* thread has ended only when no process holds the pipe, and none can come *)
(* to hold it again; so what it had taken is all there ever is.            *)
(***************************************************************************)
EXTENDS Sandbox, TLAPS

\* An attempt about to launch: the invariant holds.
LEMMA SandboxInitial == SandboxInit => SandboxInv
  <1> SUFFICES ASSUME SandboxInit PROVE SandboxInv
    OBVIOUS
  <1>0. cap \in Nat \ {0}
    BY SandboxAssumption DEF SandboxInit
  <1>1. PICK c0 \in Command :
          main = [pc |-> "launch", command |-> c0, exit |-> Nil, timed_out |-> FALSE,
                  error |-> FALSE, late |-> {}, bytes |-> [s \in Stream |-> 0]]
    BY DEF SandboxInit
  <1>2. main \in MainState
    BY <1>1 DEF MainState
  <1>3. SandboxTypeOK
    BY <1>2 DEF SandboxInit, SandboxTypeOK, ReaderState
  <1>4. ReadersInv
    BY <1>0 DEF SandboxInit, ReadersInv, Least
  <1>5. MainInv
    BY <1>1 DEF SandboxInit, MainInv, Command
  <1>6. CapturedInv /\ CaptureIsHonest
    BY DEF SandboxInit, CapturedInv, CaptureIsHonest
  <1> QED
    BY <1>3, <1>4, <1>5, <1>6 DEF SandboxInv

\* A step of the processes, in which no pipe that is closed is opened again.
LEMMA ProcessesKeep ==
    ASSUME SandboxInv,
           UNCHANGED <<cap, reader, truncated, main, capture>>,
           alive' \in [Command -> SUBSET Member], holders' \in [Command -> SUBSET Member],
           status' \in [Command -> ExitCode \cup {Nil}],
           printed' \in [Command -> [Stream -> Nat]],
           report' \in Report \cup {Nil},
           \A c \in Command :
              /\ "leader" \in alive'[c] => "leader" \in holders'[c]
              /\ holders[c] = {} => holders'[c] = {} /\ printed'[c] = printed[c]
              /\ \A s \in Stream : printed[c][s] <= printed'[c][s]
    PROVE  SandboxInv'
  <1>1. SandboxTypeOK'
    BY DEF SandboxInv, SandboxTypeOK
  <1>2. /\ cap \in Nat
        /\ \A c \in Command, s \in Stream :
              /\ reader[c][s] \in ReaderState /\ reader[c][s].taken \in Nat
              /\ printed[c][s] \in Nat /\ printed'[c][s] \in Nat
    BY SandboxAssumption DEF SandboxInv, SandboxTypeOK, ReaderState
  <1>3. ReadersInv'
    <2>1. SUFFICES ASSUME NEW c \in Command, NEW s \in Stream
                   PROVE  /\ "leader" \in alive'[c] => "leader" \in holders'[c]
                          /\ reader[c][s].buf = Least(reader[c][s].taken, cap)
                          /\ reader[c][s].taken <= printed'[c][s]
                          /\ reader[c][s].pc = "none" => reader[c][s].taken = 0
                          /\ reader[c][s].pc = "ended" =>
                                holders'[c] = {} /\ reader[c][s].taken = printed'[c][s]
                          /\ truncated[c] <=> \E t \in Stream : reader[c][t].taken > cap
      BY SandboxAssumption DEF ReadersInv, Least
    <2>2. /\ reader[c][s].buf = Least(reader[c][s].taken, cap)
          /\ reader[c][s].taken <= printed[c][s]
          /\ reader[c][s].pc = "none" => reader[c][s].taken = 0
          /\ reader[c][s].pc = "ended" => holders[c] = {} /\ reader[c][s].taken = printed[c][s]
          /\ truncated[c] <=> \E t \in Stream : reader[c][t].taken > cap
      BY DEF SandboxInv, ReadersInv
    <2> QED
      BY <1>2, <2>2
  <1>4. MainInv' /\ CapturedInv'
    BY DEF SandboxInv, MainInv, CapturedInv
  <1>5. CaptureIsHonest'
    <2>1. SUFFICES ASSUME NEW c \in Command, capture[c] # Nil, ~capture[c].error
                   PROVE  /\ \A s \in Stream \ capture[c].late :
                                /\ capture[c].bytes[s] = Least(printed'[c][s], cap)
                                /\ printed'[c][s] > cap => capture[c].truncated
                          /\ \A s \in Stream : capture[c].bytes[s] <= Least(printed'[c][s], cap)
                          /\ capture[c].truncated =>
                                \/ capture[c].report \in Oversized
                                \/ \E s \in Stream : printed'[c][s] > cap
      BY DEF CaptureIsHonest, Least
    <2>2. /\ \A s \in Stream \ capture[c].late :
                /\ capture[c].bytes[s] = Least(printed[c][s], cap)
                /\ printed[c][s] > cap => capture[c].truncated
          /\ \A s \in Stream : capture[c].bytes[s] <= Least(printed[c][s], cap)
          /\ capture[c].truncated =>
                capture[c].report \in Oversized \/ \E s \in Stream : printed[c][s] > cap
      BY <2>1 DEF SandboxInv, CaptureIsHonest
    <2>3. \A s \in Stream \ capture[c].late : printed'[c][s] = printed[c][s]
      BY <2>1 DEF SandboxInv, CapturedInv, ReadersInv
    <2>4. capture[c].bytes \in [Stream -> Nat]
      BY <2>1 DEF SandboxInv, SandboxTypeOK, CaptureState
    <2>5. \A s \in Stream : capture[c].bytes[s] <= Least(printed'[c][s], cap)
      BY <1>2, <2>2, <2>4 DEF Least
    <2>6. capture[c].truncated =>
                capture[c].report \in Oversized \/ \E s \in Stream : printed'[c][s] > cap
      BY <1>2, <2>2
    <2> QED
      BY <2>2, <2>3, <2>5, <2>6
  <1> QED
    BY <1>1, <1>3, <1>4, <1>5 DEF SandboxInv

\* Processes that print, report, fork, close and exit keep the invariant.
LEMMA ProcessStep ==
    ASSUME SandboxInv, NEW c \in Command, Processes(c)
    PROVE  SandboxInv'
  <1>0. /\ alive \in [Command -> SUBSET Member] /\ holders \in [Command -> SUBSET Member]
        /\ printed \in [Command -> [Stream -> Nat]] /\ report \in Report \cup {Nil}
        /\ status \in [Command -> ExitCode \cup {Nil}]
        /\ \A d \in Command : "leader" \in alive[d] => "leader" \in holders[d]
    BY DEF SandboxInv, SandboxTypeOK, ReadersInv
  <1>1. ASSUME NEW m \in Member, NEW s \in Stream, Emit(c, m, s) PROVE SandboxInv'
    <2>1. /\ printed' \in [Command -> [Stream -> Nat]]
          /\ \A d \in Command, t \in Stream : printed[d][t] <= printed'[d][t]
          /\ \A d \in Command : d # c => printed'[d] = printed[d]
      BY <1>0, <1>1 DEF Emit
    <2>2. holders[c] # {}
      BY <1>1 DEF Emit
    <2> QED
      BY <1>0, <1>1, <2>1, <2>2, ProcessesKeep DEF Emit
  <1>2. ASSUME NEW r \in Report \cup {Nil}, WriteReport(c, r) PROVE SandboxInv'
    <2>1. \A d \in Command, t \in Stream : printed[d][t] <= printed'[d][t]
      BY <1>0, <1>2 DEF WriteReport
    <2> QED
      BY <1>0, <1>2, <2>1, ProcessesKeep DEF WriteReport
  <1>3. ASSUME NEW m \in Member, Fork(c, m) PROVE SandboxInv'
    <2>1. \A d \in Command, t \in Stream : printed[d][t] <= printed'[d][t]
      BY <1>0, <1>3 DEF Fork
    <2>2. /\ alive' \in [Command -> SUBSET Member] /\ holders' \in [Command -> SUBSET Member]
          /\ \A d \in Command : holders[d] \subseteq holders'[d]
          /\ \A d \in Command : d # c => alive'[d] = alive[d] /\ holders'[d] = holders[d]
          /\ "leader" \in holders[c]
      BY <1>0, <1>3 DEF Fork
    <2> QED
      BY <1>0, <1>3, <2>1, <2>2, ProcessesKeep DEF Fork
  <1>4. ASSUME NEW m \in Member, NEW code \in ExitCode, Exit(c, m, code) PROVE SandboxInv'
    <2>1. \A d \in Command, t \in Stream : printed[d][t] <= printed'[d][t]
      BY <1>0, <1>4 DEF Exit
    <2>2. /\ alive' \in [Command -> SUBSET Member] /\ holders' \in [Command -> SUBSET Member]
          /\ status' \in [Command -> ExitCode \cup {Nil}]
          /\ \A d \in Command : holders'[d] \subseteq holders[d]
          /\ \A d \in Command : "leader" \in alive'[d] => "leader" \in holders'[d]
      BY <1>0, <1>4 DEF Exit
    <2> QED
      BY <1>0, <1>4, <2>1, <2>2, ProcessesKeep DEF Exit
  <1> QED
    BY <1>1, <1>2, <1>3, <1>4 DEF Processes

\* A thread takes a chunk or ends.
LEMMA ReadStep ==
    ASSUME SandboxInv, NEW c \in Command, NEW s \in Stream, Read(c, s)
    PROVE  SandboxInv'
  <1> DEFINE r == reader[c][s]
  <1>0. /\ cap \in Nat /\ Chunk \in Nat \ {0}
        /\ reader \in [Command -> [Stream -> ReaderState]]
        /\ printed \in [Command -> [Stream -> Nat]]
        /\ truncated \in [Command -> BOOLEAN]
        /\ r \in ReaderState /\ r.taken \in Nat /\ printed[c][s] \in Nat
        /\ \A d \in Command, t \in Stream : reader[d][t].taken \in Nat
    BY SandboxAssumption DEF SandboxInv, SandboxTypeOK, ReaderState
  <1>1. /\ r.buf = Least(r.taken, cap) /\ r.taken <= printed[c][s]
        /\ truncated[c] <=> \E t \in Stream : reader[c][t].taken > cap
    BY DEF SandboxInv, ReadersInv
  <1>2. r.pc = "reading" /\ UNCHANGED <<cap, alive, holders, status, printed, report, main, capture>>
    BY DEF Read, ReadChunk, ReadEnd, processVars
  <1>3. PICK q \in ReaderState :
           /\ reader' = [reader EXCEPT ![c] = [reader[c] EXCEPT ![s] = q]]
           /\ q.buf = Least(q.taken, cap) /\ q.taken <= printed[c][s] /\ r.taken <= q.taken
           /\ q.pc \in {"reading", "ended"}
           /\ q.pc = "ended" => holders[c] = {} /\ q.taken = printed[c][s]
           /\ truncated' = [truncated EXCEPT ![c] = truncated[c] \/ q.taken > cap]
    <2>1. CASE ReadEnd(c, s)
      <3> DEFINE q == [r EXCEPT !.pc = "ended"]
      <3>1. /\ q \in ReaderState /\ q.taken = r.taken /\ q.buf = r.buf /\ q.pc = "ended"
            /\ reader' = [reader EXCEPT ![c] = [reader[c] EXCEPT ![s] = q]]
        BY <1>0, <2>1 DEF ReadEnd, ReaderState
      <3>2. holders[c] = {} /\ r.taken = printed[c][s]
        <4>1. holders[c] = {} /\ printed[c][s] - r.taken = 0
          BY <2>1 DEF ReadEnd, Waiting
        <4> HIDE DEF r, q
        <4>2. r.taken \in Nat /\ printed[c][s] \in Nat
          BY <1>0
        <4>3. r.taken = printed[c][s]
          BY <4>1, <4>2
        <4> QED
          BY <4>1, <4>3
      <3>3. truncated' = [truncated EXCEPT ![c] = truncated[c] \/ r.taken > cap]
        <4>1. r.taken > cap => truncated[c]
          BY <1>1
        <4>2. (truncated[c] \/ r.taken > cap) = truncated[c]
          BY <4>1, <1>0
        <4> QED
          BY <1>0, <2>1, <4>2 DEF ReadEnd
      <3> QED
        BY <1>0, <1>1, <3>1, <3>2, <3>3
    <2>2. CASE ReadChunk(c, s)
      <3> DEFINE chunk == Least(Waiting(c, s), Chunk)
                 remaining == cap - r.buf
                 q == [r EXCEPT !.taken = r.taken + chunk, !.buf = r.buf + Least(chunk, remaining)]
      <3>1. /\ reader' = [reader EXCEPT ![c] = [reader[c] EXCEPT ![s] = q]]
            /\ truncated' = [truncated EXCEPT ![c] = truncated[c] \/ chunk > remaining]
        BY <1>0, <2>2 DEF ReadChunk
      <3>2. Waiting(c, s) = printed[c][s] - r.taken /\ Waiting(c, s) > 0
        BY <2>2 DEF ReadChunk, Waiting
      <3>3. chunk \in Nat /\ chunk > 0 /\ r.taken + chunk <= printed[c][s]
        BY <1>0, <1>1, <3>2 DEF Least
      <3> HIDE DEF chunk
      <3>4. remaining \in Nat /\ Least(chunk, remaining) \in Nat
        BY <1>0, <1>1, <3>3 DEF Least
      <3>5. r.buf + Least(chunk, remaining) = Least(r.taken + chunk, cap)
        BY <1>0, <1>1, <3>3 DEF Least
      <3>6. (truncated[c] \/ chunk > remaining) = (truncated[c] \/ r.taken + chunk > cap)
        <4>1. r.taken > cap => truncated[c]
          BY <1>1
        <4>2. r.taken <= cap => (chunk > remaining <=> r.taken + chunk > cap)
          BY <1>0, <1>1, <3>3 DEF Least
        <4>3. r.taken > cap => (chunk > remaining /\ r.taken + chunk > cap)
          BY <1>0, <1>1, <3>3 DEF Least
        <4> QED
          BY <4>1, <4>2, <4>3, <1>0
      <3>7. q \in ReaderState /\ q.taken = r.taken + chunk /\ q.pc = "reading"
            /\ q.buf = r.buf + Least(chunk, remaining)
        <4> HIDE DEF r, remaining
        <4>1. r.buf \in Nat /\ r.pc = "reading"
          BY <1>0, <1>2 DEF ReaderState
        <4>2. r.taken + chunk \in Nat /\ r.buf + Least(chunk, remaining) \in Nat
          BY <1>0, <3>3, <3>4, <4>1
        <4> QED
          BY <1>0, <4>1, <4>2 DEF ReaderState
      <3>8. chunk + r.taken >= r.taken
        BY <1>0, <3>3
      <3>9. [truncated EXCEPT ![c] = truncated[c] \/ chunk > remaining]
              = [truncated EXCEPT ![c] = truncated[c] \/ q.taken > cap]
        BY <3>6, <3>7
      <3> HIDE DEF q, remaining, r
      <3>10. r.taken <= q.taken /\ q.taken <= printed[c][s] /\ q.buf = Least(q.taken, cap)
        BY <1>0, <3>3, <3>5, <3>7
      <3> QED
        BY <3>1, <3>7, <3>9, <3>10
    <2> QED
      BY <2>1, <2>2 DEF Read
  <1>4. /\ reader' \in [Command -> [Stream -> ReaderState]] /\ reader'[c][s] = q
        /\ \A d \in Command, t \in Stream : d # c \/ t # s => reader'[d][t] = reader[d][t]
    BY <1>0, <1>3
  <1>5. truncated' \in [Command -> BOOLEAN]
    BY <1>0, <1>3
  <1>6. SandboxTypeOK'
    BY <1>2, <1>4, <1>5 DEF SandboxInv, SandboxTypeOK
  <1>7. \A d \in Command : truncated'[d] <=> \E t \in Stream : reader'[d][t].taken > cap
    <2>1. SUFFICES ASSUME NEW d \in Command
                   PROVE  truncated'[d] <=> \E t \in Stream : reader'[d][t].taken > cap
      OBVIOUS
    <2>2. truncated[d] <=> \E t \in Stream : reader[d][t].taken > cap
      BY DEF SandboxInv, ReadersInv
    <2>3. CASE d # c
      BY <1>0, <1>3, <1>4, <2>2, <2>3
    <2>4. CASE d = c
      <3>1. truncated'[c] <=> truncated[c] \/ q.taken > cap
        BY <1>0, <1>3
      <3>2. q.taken \in Nat
        BY <1>3 DEF ReaderState
      <3>3. r.taken > cap => q.taken > cap
        BY <1>0, <1>3, <3>2
      <3> QED
        BY <1>4, <2>2, <2>4, <3>1, <3>3
    <2> QED
      BY <2>3, <2>4
  <1>8. ReadersInv'
    <2>1. SUFFICES ASSUME NEW d \in Command, NEW t \in Stream
                   PROVE  /\ reader'[d][t].buf = Least(reader'[d][t].taken, cap)
                          /\ reader'[d][t].taken <= printed[d][t]
                          /\ reader'[d][t].pc = "none" => reader'[d][t].taken = 0
                          /\ reader'[d][t].pc = "ended" =>
                                holders[d] = {} /\ reader'[d][t].taken = printed[d][t]
      BY <1>2, <1>7 DEF SandboxInv, ReadersInv, Least
    <2>2. CASE d = c /\ t = s
      BY <1>3, <1>4, <2>2
    <2>3. CASE d # c \/ t # s
      BY <1>4, <2>3 DEF SandboxInv, ReadersInv
    <2> QED
      BY <2>2, <2>3
  <1>9. \A d \in Command, t \in Stream :
           /\ reader[d][t].pc = "ended" => reader'[d][t] = reader[d][t]
           /\ reader[d][t].pc = "none" => reader'[d][t] = reader[d][t]
           /\ reader[d][t].buf <= reader'[d][t].buf
    <2>1. r.buf <= q.buf
      <3>1. q.taken \in Nat
        BY <1>3 DEF ReaderState
      <3> QED
        BY <1>0, <1>1, <1>3, <3>1 DEF Least
    <2>2. \A d \in Command, t \in Stream : reader[d][t].buf \in Nat
      BY <1>0 DEF ReaderState
    <2> QED
      BY <1>2, <1>4, <2>1, <2>2
  <1>10. MainInv'
    <2>1. main.command \in Command /\ "verify" \in Command /\ "stdout" \in Stream
      BY SandboxAssumption DEF SandboxInv, SandboxTypeOK, MainState, Command
    <2>2. /\ main.bytes \in [Stream -> Nat]
          /\ \A d \in Command, t \in Stream : reader[d][t].buf \in Nat /\ reader'[d][t].buf \in Nat
      BY <1>0, <1>4 DEF SandboxInv, SandboxTypeOK, MainState, ReaderState
    <2>3. MainInv
      BY DEF SandboxInv
    <2>4. main.pc = "return" /\ ~main.error =>
            \A t \in Stream : /\ main.bytes[t] <= reader'[main.command][t].buf
                              /\ t \notin main.late => main.bytes[t] = reader'[main.command][t].buf
      BY <1>9, <2>1, <2>2, <2>3 DEF MainInv
    <2> QED
      BY <1>2, <1>9, <2>1, <2>3, <2>4 DEF MainInv
  <1>11. CapturedInv'
    BY <1>2, <1>9 DEF SandboxInv, CapturedInv
  <1>12. CaptureIsHonest'
    BY <1>2 DEF SandboxInv, CaptureIsHonest, Least
  <1> QED
    BY <1>6, <1>8, <1>10, <1>11, <1>12 DEF SandboxInv

\* A step of the main thread that leaves processes, threads and captures alone.
LEMMA MainKeeps ==
    ASSUME SandboxInv,
           UNCHANGED <<cap, alive, holders, status, printed, report, reader, truncated, capture>>,
           main' \in MainState, MainInv'
    PROVE  SandboxInv'
  <1>1. SandboxTypeOK'
    BY DEF SandboxInv, SandboxTypeOK
  <1>2. ReadersInv' /\ CapturedInv'
    BY DEF SandboxInv, ReadersInv, CapturedInv, Least
  <1>3. CaptureIsHonest'
    BY DEF SandboxInv, CaptureIsHonest, Least
  <1> QED
    BY <1>1, <1>2, <1>3 DEF SandboxInv

\* A thread that is started.
LEMMA ReaderStarts ==
    ASSUME NEW r \in ReaderState
    PROVE  LET q == [r EXCEPT !.pc = "reading"] IN
           q \in ReaderState /\ q.pc = "reading" /\ q.taken = r.taken /\ q.buf = r.buf
  BY DEF ReaderState

\* A step that starts the first process of a command and some of its readers.
LEMMA Started ==
    ASSUME SandboxInv, NEW c \in Command, At("launch", c), NEW started \in SUBSET Stream,
           alive' = [alive EXCEPT ![c] = {"leader"}],
           holders' = [holders EXCEPT ![c] = {"leader"}],
           reader' = [reader EXCEPT ![c] =
              [s \in Stream |-> IF s \in started THEN [reader[c][s] EXCEPT !.pc = "reading"]
                                ELSE reader[c][s]]],
           UNCHANGED <<cap, status, printed, truncated, capture, report>>,
           main' \in MainState, main'.command = c, main'.pc \in {"wait", "snapshot"},
           main'.pc = "snapshot" => main'.error /\ main'.exit = Failed,
           main'.pc = "wait" => ~main'.error
    PROVE  SandboxInv'
  <1>0. /\ main.pc = "launch" /\ main.command = c
        /\ reader \in [Command -> [Stream -> ReaderState]]
        /\ alive \in [Command -> SUBSET Member] /\ holders \in [Command -> SUBSET Member]
        /\ \A s \in Stream : reader[c][s].pc = "none"
    BY DEF At, SandboxInv, SandboxTypeOK, MainInv
  <1>3. /\ reader' \in [Command -> [Stream -> ReaderState]]
        /\ \A d \in Command : d # c => reader'[d] = reader[d]
        /\ \A s \in Stream : /\ reader'[c][s].pc \in {"none", "reading"}
                             /\ reader'[c][s].taken = reader[c][s].taken
                             /\ reader'[c][s].buf = reader[c][s].buf
    <2> DEFINE q == [s \in Stream |-> IF s \in started
                                      THEN [reader[c][s] EXCEPT !.pc = "reading"]
                                      ELSE reader[c][s]]
    <2>1. \A s \in Stream : [reader[c][s] EXCEPT !.pc = "reading"] \in ReaderState
      BY <1>0, ReaderStarts
    <2>2. q \in [Stream -> ReaderState]
      BY <1>0, <2>1
    <2>3. \A s \in Stream : /\ q[s].pc \in {"none", "reading"}
                            /\ q[s].taken = reader[c][s].taken /\ q[s].buf = reader[c][s].buf
      <3> TAKE s \in Stream
      <3>1. reader[c][s] \in ReaderState /\ reader[c][s].pc = "none"
        BY <1>0
      <3>2. CASE s \in started
        BY <3>1, <3>2, ReaderStarts
      <3>3. CASE s \notin started
        BY <3>1, <3>3
      <3> QED
        BY <3>2, <3>3
    <2>4. reader' = [reader EXCEPT ![c] = q]
      OBVIOUS
    <2> HIDE DEF q
    <2> QED
      BY <1>0, <2>2, <2>3, <2>4
  <1>4. /\ alive' \in [Command -> SUBSET Member] /\ holders' \in [Command -> SUBSET Member]
        /\ alive'[c] = {"leader"} /\ holders'[c] = {"leader"}
        /\ \A d \in Command : d # c => alive'[d] = alive[d] /\ holders'[d] = holders[d]
    BY <1>0 DEF Member
  <1>6. SandboxTypeOK'
    BY <1>3, <1>4 DEF SandboxInv, SandboxTypeOK
  <1>7. ReadersInv'
    <2>1. ASSUME NEW d \in Command, d # c PROVE ReadersInv!(d)'
      BY <2>1, <1>3, <1>4 DEF SandboxInv, ReadersInv, Least
    <2>2. ReadersInv!(c)'
      <3>1. ASSUME NEW s \in Stream
            PROVE  /\ reader'[c][s].buf = Least(reader'[c][s].taken, cap')
                   /\ reader'[c][s].taken <= printed'[c][s] /\ reader'[c][s].taken = 0
                   /\ reader'[c][s].pc # "ended"
        BY <1>0, <1>3 DEF SandboxInv, ReadersInv, Least
      <3>2. truncated'[c] <=> \E s \in Stream : reader'[c][s].taken > cap'
        BY <1>3 DEF SandboxInv, ReadersInv
      <3>3. "leader" \in holders'[c]
        BY <1>4
      <3> QED
        BY <3>1, <3>2, <3>3
    <2> QED
      BY <2>1, <2>2 DEF ReadersInv
  <1>8. MainInv'
    <2>1. c = "build" => \A s \in Stream : reader'["verify"][s].pc = "none"
      BY <1>0, <1>3 DEF SandboxInv, MainInv, Command
    <2>2. capture[c] = Nil /\ (c = "build" => capture["verify"] = Nil)
      BY <1>0 DEF SandboxInv, MainInv
    <2>3. Failed # Nil
      BY SandboxAssumption DEF Failed
    <2> QED
      BY <2>1, <2>2, <2>3 DEF MainInv
  <1>9. CapturedInv'
    <2>1. capture[c] = Nil
      BY <1>0 DEF SandboxInv, MainInv
    <2> QED
      BY <1>3, <2>1 DEF SandboxInv, CapturedInv
  <1>10. CaptureIsHonest'
    BY DEF SandboxInv, CaptureIsHonest, Least
  <1> QED
    BY <1>6, <1>7, <1>8, <1>9, <1>10 DEF SandboxInv

\* So does the launch of a command.
LEMMA LaunchStep ==
    ASSUME SandboxInv, NEW c \in Command, Launch(c)
    PROVE  SandboxInv'
  <1>1. /\ main \in MainState /\ main.pc = "launch" /\ main.command = c /\ ~main.error
        /\ reader \in [Command -> [Stream -> ReaderState]]
    BY DEF Launch, At, SandboxInv, SandboxTypeOK, MainInv
  <1>2. main' \in MainState /\ main'.pc = "wait" /\ main'.command = c /\ ~main'.error
    BY <1>1 DEF Launch, Goto, MainState
  <1>3. reader' = [reader EXCEPT ![c] =
           [s \in Stream |-> IF s \in Stream THEN [reader[c][s] EXCEPT !.pc = "reading"]
                             ELSE reader[c][s]]]
    BY <1>1 DEF Launch
  <1> QED
    BY <1>2, <1>3, Started DEF Launch

\* So does one whose threads cannot all be started.
LEMMA ThreadFailsStep ==
    ASSUME SandboxInv, NEW c \in Command, ThreadFails(c)
    PROVE  SandboxInv'
  <1>1. /\ main \in MainState /\ main.pc = "launch" /\ main.command = c
        /\ reader \in [Command -> [Stream -> ReaderState]]
    BY DEF ThreadFails, At, SandboxInv, SandboxTypeOK
  <1>2. /\ main' \in MainState /\ main'.pc = "snapshot" /\ main'.command = c
        /\ main'.error = TRUE /\ main'.exit = Failed
    BY <1>1 DEF ThreadFails, MainState
  <1>3. PICK started \in {{}, {"stdout"}} :
           reader' = [reader EXCEPT ![c] =
              [s \in Stream |-> IF s \in started THEN [reader[c][s] EXCEPT !.pc = "reading"]
                                ELSE reader[c][s]]]
    BY <1>1 DEF ThreadFails
  <1>4. started \in SUBSET Stream
    BY SandboxAssumption
  <1> QED
    BY <1>2, <1>3, <1>4, Started DEF ThreadFails

\* So does a launch that fails.
LEMMA LaunchFailsStep ==
    ASSUME SandboxInv, NEW c \in Command, LaunchFails(c)
    PROVE  SandboxInv'
  <1>1. main \in MainState /\ main.pc = "launch" /\ MainInv
    BY DEF LaunchFails, At, SandboxInv, SandboxTypeOK
  <1>2. /\ main' \in MainState /\ main'.pc = "snapshot" /\ main'.exit = Failed
        /\ main'.error = TRUE /\ main'.command = main.command
    BY <1>1 DEF LaunchFails, MainState
  <1>3. Failed # Nil
    BY SandboxAssumption DEF Failed
  <1>4. MainInv'
    BY <1>1, <1>2, <1>3 DEF LaunchFails, processVars, MainInv
  <1> QED
    BY <1>2, <1>4, MainKeeps DEF LaunchFails, processVars

\* So does the end of the wait.
LEMMA WaitReturnsStep ==
    ASSUME SandboxInv, NEW c \in Command, WaitReturns(c)
    PROVE  SandboxInv'
  <1>1. main \in MainState /\ main.pc = "wait" /\ MainInv /\ status[c] \in ExitCode
    BY DEF WaitReturns, At, SandboxInv, SandboxTypeOK
  <1>2. /\ main' \in MainState /\ main'.pc = "join_stdout" /\ main'.exit = status[c]
        /\ main'.error = main.error /\ main'.command = main.command
    BY <1>1 DEF WaitReturns, MainState
  <1>3. MainInv'
    BY <1>1, <1>2 DEF WaitReturns, processVars, MainInv
  <1> QED
    BY <1>2, <1>3, MainKeeps DEF WaitReturns, processVars

\* After the group is killed fewer processes hold the pipes.
LEMMA WaitExpiresStep ==
    ASSUME SandboxInv, NEW c \in Command, WaitExpires(c)
    PROVE  SandboxInv'
  <1>0. /\ main \in MainState /\ main.pc = "wait" /\ MainInv
        /\ alive \in [Command -> SUBSET Member] /\ holders \in [Command -> SUBSET Member]
    BY DEF WaitExpires, At, SandboxInv, SandboxTypeOK
  <1>1. Failed # Nil
    BY SandboxAssumption DEF Failed
  <1>2. /\ main' \in MainState /\ main'.pc = "join_stdout" /\ main'.exit = Failed
        /\ main'.error = main.error /\ main'.command = main.command
    BY <1>0 DEF WaitExpires, MainState
  <1>3. /\ alive' \in [Command -> SUBSET Member] /\ holders' \in [Command -> SUBSET Member]
        /\ \A d \in Command : /\ holders'[d] \subseteq holders[d]
                              /\ alive'[d] \subseteq alive[d]
                              /\ d # c => holders'[d] = holders[d]
        /\ "leader" \notin alive'[c]
    BY <1>0 DEF WaitExpires
  <1>4. UNCHANGED <<cap, status, printed, report, reader, truncated, capture>>
    BY DEF WaitExpires
  <1>5. SandboxTypeOK'
    BY <1>2, <1>3, <1>4 DEF SandboxInv, SandboxTypeOK
  <1>6. ReadersInv'
    <2>1. ASSUME NEW d \in Command PROVE "leader" \in alive'[d] => "leader" \in holders'[d]
      BY <1>3 DEF SandboxInv, ReadersInv
    <2>2. ASSUME NEW d \in Command PROVE holders[d] = {} => holders'[d] = {}
      BY <1>3
    <2> QED
      BY <1>4, <2>1, <2>2 DEF SandboxInv, ReadersInv, Least
  <1>7. MainInv'
    BY <1>0, <1>1, <1>2, <1>4 DEF MainInv
  <1>8. CapturedInv' /\ CaptureIsHonest'
    BY <1>4 DEF SandboxInv, CapturedInv, CaptureIsHonest, Least
  <1> QED
    BY <1>5, <1>6, <1>7, <1>8 DEF SandboxInv

\* Each join() either finds its thread ended or marks the stream.
LEMMA JoinStep ==
    ASSUME SandboxInv, NEW c \in Command, NEW s \in Stream, Join(c, s) \/ JoinExpires(c, s)
    PROVE  SandboxInv'
  <1>1. /\ main \in MainState /\ main.pc = JoinPc(s) /\ main.command = c /\ MainInv
        /\ UNCHANGED <<cap, alive, holders, status, printed, report, reader, truncated, capture>>
    BY DEF Join, JoinExpires, At, processVars, SandboxInv, SandboxTypeOK
  <1>2. /\ main' \in MainState /\ main'.pc = AfterJoin(s) /\ main'.command = c
        /\ main'.exit = main.exit /\ main'.error = main.error /\ main.late \subseteq main'.late
        /\ s \in main'.late \/ reader[c][s].pc = "ended"
    <2>1. AfterJoin(s) \in {"join_stderr", "snapshot"}
      BY DEF AfterJoin
    <2>2. CASE Join(c, s)
      BY <1>1, <2>1, <2>2 DEF Join, Goto, MainState
    <2>3. CASE JoinExpires(c, s)
      BY <1>1, <2>1, <2>3 DEF JoinExpires, MainState
    <2> QED
      BY <2>2, <2>3
  <1>3. MainInv'
    <2>1. CASE s = "stdout"
      BY <1>1, <1>2, <2>1 DEF MainInv, JoinPc, AfterJoin
    <2>2. CASE s = "stderr"
      BY <1>1, <1>2, <2>2, SandboxAssumption DEF MainInv, JoinPc, AfterJoin
    <2> QED
      BY <2>1, <2>2, SandboxAssumption
  <1> QED
    BY <1>1, <1>2, <1>3, MainKeeps

\* So does the copying of the buffers.
LEMMA SnapshotStep ==
    ASSUME SandboxInv, NEW c \in Command, Snapshot(c)
    PROVE  SandboxInv'
  <1> DEFINE bytes == [s \in Stream |-> IF main.error THEN 0 ELSE reader[c][s].buf]
  <1>1. /\ main \in MainState /\ main.pc = "snapshot" /\ main.command = c /\ MainInv
        /\ \A s \in Stream : reader[c][s].buf \in Nat
    BY DEF Snapshot, At, SandboxInv, SandboxTypeOK, ReaderState
  <1>2. bytes \in [Stream -> Nat]
    BY <1>1
  <1>3. main' = [main EXCEPT !.pc = "return", !.bytes = bytes]
    BY DEF Snapshot
  <1>4. /\ main' \in MainState /\ main'.pc = "return" /\ main'.command = c
        /\ main'.exit = main.exit /\ main'.error = main.error /\ main'.late = main.late
        /\ main'.bytes = bytes
    <2> HIDE DEF bytes
    <2> QED
      BY <1>1, <1>2, <1>3 DEF MainState
  <1>5. ~main.error => \A s \in Stream : bytes[s] = reader[c][s].buf /\ bytes[s] <= reader[c][s].buf
    BY <1>1
  <1>6. MainInv'
    <2> HIDE DEF bytes
    <2> QED
      BY <1>1, <1>4, <1>5 DEF Snapshot, processVars, MainInv
  <1> QED
    BY <1>4, <1>6, MainKeeps DEF Snapshot, processVars

\* So does the storing and grading of the evidence by run_one.
LEMMA CollectStep ==
    ASSUME SandboxInv, Collect
    PROVE  SandboxInv'
  <1>1. main \in MainState /\ main.pc = "collect" /\ MainInv
    BY DEF Collect, SandboxInv, SandboxTypeOK
  <1>2. main' \in MainState /\ main'.pc = "done" /\ main'.exit = main.exit /\ main'.error = main.error
    BY <1>1 DEF Collect, Goto, MainState
  <1>3. MainInv'
    BY <1>1, <1>2 DEF MainInv
  <1> QED
    BY <1>2, <1>3, MainKeeps DEF Collect, processVars

\* So does an exception that leaves run_one.
LEMMA RaiseStep ==
    ASSUME SandboxInv, Raise
    PROVE  SandboxInv'
  <1>1. main \in MainState /\ main.pc \in {"snapshot", "return", "collect"} /\ MainInv
    BY DEF Raise, SandboxInv, SandboxTypeOK
  <1>2. main' \in MainState /\ main'.pc = "done" /\ main'.exit = main.exit /\ main'.error = main.error
    BY <1>1 DEF Raise, Goto, MainState
  <1>3. MainInv'
    BY <1>1, <1>2 DEF MainInv
  <1> QED
    BY <1>2, <1>3, MainKeeps DEF Raise, processVars

\* What execute() returns.  A reader it waited for has ended, so its buffer is
\* the output up to the cap and its share of the flag is final.
LEMMA ReturnStep ==
    ASSUME SandboxInv, NEW c \in Command, Return(c)
    PROVE  SandboxInv'
  <1> DEFINE r == [exit |-> main.exit, timed_out |-> main.timed_out, error |-> main.error,
                   truncated |-> truncated[c] \/ report \in Oversized,
                   late |-> main.late, left |-> \E d \in Command : alive[d] # {},
                   bytes |-> main.bytes, report |-> report]
  <1>1. /\ main \in MainState /\ main.pc = "return" /\ main.command = c
        /\ MainInv /\ ReadersInv /\ CapturedInv /\ CaptureIsHonest
        /\ capture \in [Command -> CaptureState \cup {Nil}]
        /\ truncated[c] \in BOOLEAN /\ report \in Report \cup {Nil}
        /\ main.exit # Nil
    BY DEF Return, At, SandboxInv, SandboxTypeOK, MainInv
  <1>2. UNCHANGED <<cap, alive, holders, status, printed, report, reader, truncated>>
    BY DEF Return, processVars
  <1>3. r \in CaptureState
    BY <1>1 DEF MainState, CaptureState
  <1>4. /\ capture' \in [Command -> CaptureState \cup {Nil}]
        /\ capture'[c] = r
        /\ \A d \in Command : d # c => capture'[d] = capture[d]
    <2>1. capture' = [capture EXCEPT ![c] = r]
      BY DEF Return
    <2> HIDE DEF r
    <2> QED
      BY <1>1, <1>3, <2>1
  <1>5. /\ r.error = main.error /\ r.late = main.late /\ r.bytes = main.bytes
        /\ r.report = report /\ (r.truncated <=> (truncated[c] \/ report \in Oversized))
    OBVIOUS
  <1> HIDE DEF r
  <1>6. /\ main' \in MainState
        /\ \/ /\ c = "build" /\ ~main.error /\ main'.pc = "launch" /\ main'.command = "verify"
              /\ ~main'.error
           \/ main'.pc = "collect" /\ main'.exit = main.exit /\ main'.error = main.error
    <2>1. CASE c = "build" /\ main.exit = 0
      <3>1. main' = [main EXCEPT !.pc = "launch", !.command = "verify", !.exit = Nil,
                                 !.late = {}, !.bytes = [s \in Stream |-> 0]]
        BY <2>1 DEF Return
      <3>2. [s \in Stream |-> 0] \in [Stream -> Nat]
        OBVIOUS
      <3>3. ~main.error
        BY <1>1, <2>1 DEF MainInv, Failed
      <3> QED
        BY <1>1, <2>1, <3>1, <3>2, <3>3 DEF MainState, Command
    <2>2. CASE ~(c = "build" /\ main.exit = 0)
      <3>1. main' = [main EXCEPT !.pc = "collect"]
        BY <2>2 DEF Return
      <3> QED
        BY <1>1, <3>1 DEF MainState
    <2> QED
      BY <2>1, <2>2
  <1>7. SandboxTypeOK'
    BY <1>2, <1>4, <1>6 DEF SandboxInv, SandboxTypeOK
  <1>8. ReadersInv'
    BY <1>1, <1>2 DEF ReadersInv, Least
  <1>9. MainInv'
    <2>1. CASE main'.pc = "launch" /\ c = "build" /\ main'.command = "verify" /\ ~main'.error
      <3>1. capture'["verify"] = Nil /\ \A s \in Stream : reader'["verify"][s].pc = "none"
        BY <1>1, <1>2, <1>4, <2>1 DEF MainInv, Command
      <3> QED
        BY <2>1, <3>1 DEF MainInv
    <2>2. CASE main'.pc = "collect" /\ main'.exit = main.exit /\ main'.error = main.error
      BY <1>1, <2>2 DEF MainInv
    <2> QED
      BY <1>6, <2>1, <2>2
  <1>10. CapturedInv'
    <2>1. ~r.error => \A s \in Stream \ r.late : reader'[c][s].pc = "ended"
      BY <1>1, <1>2, <1>5 DEF MainInv
    <2> QED
      BY <1>1, <1>2, <1>4, <2>1 DEF CapturedInv
  <1>11. CaptureIsHonest'
    <2>1. ASSUME NEW d \in Command, d # c PROVE CaptureIsHonest!(d)'
      BY <1>1, <1>2, <1>4, <2>1 DEF CaptureIsHonest, Least
    <2>2. CaptureIsHonest!(c)'
      <3>1. SUFFICES ASSUME ~main.error
                     PROVE  CaptureIsHonest!(c)'
        BY <1>4, <1>5
      <3>2. /\ cap \in Nat
            /\ \A s \in Stream : /\ reader[c][s].taken \in Nat /\ printed[c][s] \in Nat
                                 /\ main.bytes[s] \in Nat
        BY <1>1, SandboxAssumption DEF SandboxInv, SandboxTypeOK, ReaderState, MainState
      <3>3. ASSUME NEW s \in Stream \ main.late
            PROVE  /\ main.bytes[s] = Least(printed[c][s], cap)
                   /\ printed[c][s] > cap => truncated[c]
        <4>1. reader[c][s].pc = "ended" /\ main.bytes[s] = reader[c][s].buf
          BY <1>1, <3>1, <3>3 DEF MainInv
        <4> QED
          BY <1>1, <3>2, <4>1 DEF ReadersInv
      <3>4. ASSUME NEW s \in Stream PROVE main.bytes[s] <= Least(printed[c][s], cap)
        <4>1. main.bytes[s] <= reader[c][s].buf
          BY <1>1, <3>1 DEF MainInv
        <4>2. /\ reader[c][s].buf = Least(reader[c][s].taken, cap)
              /\ reader[c][s].taken <= printed[c][s]
          BY <1>1 DEF ReadersInv
        <4> QED
          BY <3>2, <4>1, <4>2 DEF Least
      <3>5. truncated[c] => \E s \in Stream : printed[c][s] > cap
        <4> SUFFICES ASSUME truncated[c] PROVE \E s \in Stream : printed[c][s] > cap
          OBVIOUS
        <4>1. PICK s \in Stream : reader[c][s].taken > cap
          BY <1>1 DEF ReadersInv
        <4>2. reader[c][s].taken <= printed[c][s]
          BY <1>1 DEF ReadersInv
        <4> QED
          BY <3>2, <4>1, <4>2
      <3> QED
        BY <1>2, <1>4, <1>5, <3>3, <3>4, <3>5 DEF Least
    <2> QED
      BY <2>1, <2>2 DEF CaptureIsHonest
  <1> QED
    BY <1>7, <1>8, <1>9, <1>10, <1>11 DEF SandboxInv

\* Every step keeps the invariant.
LEMMA SandboxStep == SandboxInv /\ [SandboxNext]_sandboxVars => SandboxInv'
  <1> SUFFICES ASSUME SandboxInv, [SandboxNext]_sandboxVars PROVE SandboxInv'
    OBVIOUS
  <1>1. CASE Main
    <2>1. ASSUME NEW c \in Command,
                 \/ Launch(c) \/ LaunchFails(c) \/ ThreadFails(c) \/ WaitReturns(c) \/ WaitExpires(c)
                 \/ \E s \in Stream : Join(c, s) \/ JoinExpires(c, s)
                 \/ Snapshot(c) \/ Return(c)
          PROVE  SandboxInv'
      BY <2>1, LaunchStep, LaunchFailsStep, ThreadFailsStep, WaitReturnsStep, WaitExpiresStep,
         JoinStep, SnapshotStep, ReturnStep
    <2> QED
      BY <1>1, <2>1, CollectStep, RaiseStep DEF Main
  <1>2. ASSUME NEW c \in Command, NEW s \in Stream, Read(c, s) PROVE SandboxInv'
    BY <1>2, ReadStep
  <1>3. ASSUME NEW c \in Command, Processes(c) PROVE SandboxInv'
    BY <1>3, ProcessStep
  <1>4. CASE UNCHANGED sandboxVars
    BY <1>4 DEF sandboxVars, SandboxInv, SandboxTypeOK, ReadersInv, MainInv, CapturedInv,
                CaptureIsHonest, Least
  <1> QED
    BY <1>1, <1>2, <1>3, <1>4 DEF SandboxNext

\* The state of the threads fits that of execute() throughout: a thread that
\* was joined has seen the end of a pipe that stays closed.
THEOREM SandboxInvariance == SandboxSpec => []SandboxInv
  <1>1. SandboxInit => SandboxInv
    BY SandboxInitial
  <1>2. SandboxInv /\ [SandboxNext]_sandboxVars => SandboxInv'
    BY SandboxStep
  <1> QED
    BY <1>1, <1>2, PTL DEF SandboxSpec

\* The streams execute() returns, and their truncated flag, are those of the
\* command for every chunk size, cap and output, for each stream it has waited
\* for.
THEOREM CapturesAreHonest == SandboxSpec => []CaptureIsHonest
  <1>1. SandboxInv => CaptureIsHonest
    BY DEF SandboxInv
  <1> QED
    BY <1>1, SandboxInvariance, PTL

-----------------------------------------------------------------------------
(* The evidence of the attempt *)

\* Before the launch there is no evidence.
LEMMA LogInitial == SandboxInit => LogInv
  BY DEF SandboxInit, LogInv

\* A step that leaves the captures, the logs and the attempt alone, before
\* execute() has written the logs.
LEMMA LogKept ==
    ASSUME LogInv, UNCHANGED attempt, main.pc # "done",
           main'.pc \notin {"return", "collect"}
    PROVE  LogInv'
  BY DEF LogInv

\* The capture that execute() returns.
LEMMA Returned ==
    ASSUME SandboxInv, NEW c \in Command, Return(c)
    PROVE  /\ capture'[c] # Nil /\ capture'[c].bytes = main.bytes
           /\ capture'[c].report = report
           /\ capture'[c].left <=> \E d \in Command : alive[d] # {}
  <1> DEFINE r == [exit |-> main.exit, timed_out |-> main.timed_out, error |-> main.error,
                   truncated |-> truncated[c] \/ report \in Oversized,
                   late |-> main.late, left |-> \E d \in Command : alive[d] # {},
                   bytes |-> main.bytes, report |-> report]
  <1>1. /\ main \in MainState /\ main.exit # Nil /\ report \in Report \cup {Nil}
        /\ truncated[c] \in BOOLEAN /\ capture \in [Command -> CaptureState \cup {Nil}]
    BY DEF Return, At, SandboxInv, SandboxTypeOK, MainInv
  <1>2. r \in CaptureState
    BY <1>1 DEF MainState, CaptureState
  <1>3. capture'[c] = r
    <2>1. capture' = [capture EXCEPT ![c] = r]
      BY DEF Return
    <2> HIDE DEF r
    <2> QED
      BY <1>1, <2>1
  <1>4. /\ r.bytes = main.bytes /\ r.report = report
        /\ r.left <=> \E d \in Command : alive[d] # {}
    OBVIOUS
  <1> HIDE DEF r
  <1> QED
    BY <1>2, <1>3, <1>4, NilAssumption

\* When execute() returns, what it has written is in the logs; the verification
\* that follows a build starts anew.
LEMMA LogReturn ==
    ASSUME SandboxInv, LogInv, NEW c \in Command, Return(c)
    PROVE  LogInv'
  <1>1. /\ main \in MainState /\ main.pc = "return" /\ main.command = c
        /\ attempt = Nil /\ attempt' = Nil /\ log' = log /\ report' = report /\ alive' = alive
        /\ Logged(log, c, main.bytes)
    BY DEF Return, At, processVars, SandboxInv, SandboxTypeOK, LogInv
  <1>2. CASE c = "build" /\ main.exit = 0
    <2>1. main'.pc = "launch"
      BY <1>1, <1>2 DEF Return, MainState
    <2> QED
      BY <1>1, <2>1 DEF LogInv
  <1>3. CASE ~(c = "build" /\ main.exit = 0)
    <2>1. main'.pc = "collect" /\ main'.command = c
      BY <1>1, <1>3 DEF Return, MainState
    <2>2. Logged(log', c, capture'[c].bytes)
      BY <1>1, Returned DEF Logged
    <2> QED
      BY <1>1, <2>1, <2>2, Returned DEF LogInv
  <1> QED
    BY <1>2, <1>3

\* Processes do not touch the logs, and where none is left the report stays.
LEMMA LogProcesses ==
    ASSUME LogInv, NEW c \in Command, Processes(c)
    PROVE  LogInv'
  <1>1. UNCHANGED <<main, capture, log, attempt>>
    BY DEF Processes, Emit, WriteReport, Fork, Exit
  <1>2. /\ main.pc # "done"
        /\ (\A d \in Command : alive[d] = {}) =>
               report' = report /\ \A d \in Command : alive'[d] = {}
    BY DEF Processes, Emit, WriteReport, Fork, Exit, Running
  <1> QED
    BY <1>1, <1>2 DEF LogInv, Logged

\* Every step keeps what the last command left in the logs.
LEMMA LogStep == SandboxInv /\ LogInv /\ [SandboxNext]_sandboxVars => LogInv'
  <1> SUFFICES ASSUME SandboxInv, LogInv, [SandboxNext]_sandboxVars PROVE LogInv'
    OBVIOUS
  <1>0. main \in MainState
    BY DEF SandboxInv, SandboxTypeOK
  <1>1. CASE UNCHANGED <<main, capture, log, attempt, alive, report>>
    BY <1>1 DEF LogInv, Logged
  <1>2. ASSUME NEW c \in Command,
               \/ Launch(c) \/ LaunchFails(c) \/ ThreadFails(c) \/ WaitReturns(c) \/ WaitExpires(c)
               \/ \E s \in Stream : Join(c, s) \/ JoinExpires(c, s)
        PROVE  LogInv'
    <2>1. /\ main.pc \in {"launch", "wait", "join_stdout", "join_stderr"}
          /\ main'.pc \in {"wait", "snapshot", "join_stdout", "join_stderr"}
          /\ UNCHANGED attempt
      BY <1>0, <1>2 DEF Launch, LaunchFails, ThreadFails, WaitReturns, WaitExpires, Join,
                        JoinExpires, At, Goto, JoinPc, AfterJoin, MainState
    <2> QED
      BY <2>1, LogKept
  <1>3. ASSUME NEW c \in Command, Snapshot(c) PROVE LogInv'
    <2> DEFINE bytes == [s \in Stream |-> IF main.error THEN 0 ELSE reader[c][s].buf]
    <2>1. main.pc = "snapshot" /\ main.command = c /\ attempt' = attempt
      BY <1>3 DEF Snapshot, At
    <2>2. /\ main' = [main EXCEPT !.pc = "return", !.bytes = bytes]
          /\ log' = [s \in Stream |-> IF bytes[s] > 0 THEN [command |-> c, bytes |-> bytes[s]]
                                      ELSE log[s]]
      BY <1>3 DEF Snapshot
    <2> HIDE DEF bytes
    <2>3. main'.pc = "return" /\ main'.command = c /\ main'.bytes = bytes
      BY <1>0, <2>1, <2>2 DEF MainState
    <2> QED
      BY <2>1, <2>2, <2>3 DEF LogInv, Logged
  <1>4. CASE Collect
    <2>1. /\ main.pc = "collect" /\ main'.pc = "done" /\ main'.command = main.command
          /\ attempt' = [log |-> log, report |-> report]
          /\ UNCHANGED capture
      BY <1>0, <1>4 DEF Collect, Goto, MainState
    <2> QED
      BY <2>1 DEF LogInv, Logged
  <1>5. CASE Raise
    <2>1. main.pc # "done" /\ main'.pc = "done" /\ attempt' = attempt
      BY <1>0, <1>5 DEF Raise, Goto, MainState
    <2> QED
      BY <2>1, LogKept
  <1>6. ASSUME NEW c \in Command, NEW s \in Stream, Read(c, s)
        PROVE  UNCHANGED <<main, capture, log, attempt, alive, report>>
    BY <1>6 DEF Read, ReadChunk, ReadEnd, processVars
  <1>7. CASE Main
    BY <1>2, <1>3, <1>4, <1>5, <1>7, LogReturn DEF Main
  <1> QED
    BY <1>1, <1>6, <1>7, LogProcesses DEF SandboxNext, sandboxVars

\* The evidence of an attempt is what its last command produced: of every stream
\* it printed to and execute() waited for, the log is its output up to the cap,
\* and a report graded is the one execute() saw unless a process lived on.
THEOREM EvidenceIsSound == SandboxSpec => []EvidenceIsOutput
  <1>1. SandboxInv /\ LogInv /\ [SandboxNext]_sandboxVars => LogInv'
    BY LogStep
  <1>2. SandboxInv /\ LogInv => EvidenceIsOutput
    <2> SUFFICES ASSUME SandboxInv, LogInv, attempt # Nil
                 PROVE  EvidenceIsOutput
      BY DEF EvidenceIsOutput
    <2> DEFINE c == main.command
    <2>1. /\ c \in Command /\ capture[c] # Nil
          /\ Logged(attempt.log, c, capture[c].bytes)
          /\ ~capture[c].left => attempt.report = capture[c].report
      BY DEF SandboxInv, SandboxTypeOK, MainState, LogInv
    <2>2. ASSUME ~capture[c].error, NEW s \in Stream \ capture[c].late, printed[c][s] > 0
          PROVE  attempt.log[s] = [command |-> c, bytes |-> Least(printed[c][s], cap)]
      <3>1. capture[c].bytes[s] = Least(printed[c][s], cap)
        BY <2>1, <2>2 DEF SandboxInv, CaptureIsHonest
      <3>2. cap \in Nat \ {0} /\ printed[c][s] \in Nat
        BY <2>1, SandboxAssumption DEF SandboxInv, SandboxTypeOK
      <3>3. capture[c].bytes[s] > 0
        BY <2>2, <3>1, <3>2 DEF Least
      <3> QED
        BY <2>1, <3>1, <3>3 DEF Logged
    <2> QED
      BY <2>1, <2>2 DEF EvidenceIsOutput
  <1> QED
    BY <1>1, <1>2, LogInitial, SandboxInvariance, PTL DEF SandboxSpec

=============================================================================
