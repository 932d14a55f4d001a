---------------------------- MODULE AgentLoopProofs ----------------------------
(***************************************************************************)
(* Theorems about AgentLoop, for any number of tasks, enrollments and      *)
(* kills: that a loop with nothing to reload holds one whole enrollment,   *)
(* because the files are written in the reverse of the order in which they *)
(* are read, and that an installed version reaches the loop unless its     *)
(* restart is known to be missed.                                          *)
(***************************************************************************)
EXTENDS AgentLoop, TLAPS

USE DEF hub, disk, loop, work, update

-------------------------------------------------------------------------------
(* The inductive invariant *)

DiskType == /\ issued \in Enrolls
            /\ file \in [Files -> Enrolls]
            /\ stamp \in 0..MaxWrites
            /\ cli \in Cli

LoopType == /\ pc \in [Pollers -> Labels]
            /\ cred \in [Pollers -> Cred]
            /\ fresh \in Cred
            /\ seen \in 0..MaxWrites

WorkType == /\ task \in [Tasks -> HubTask]
            /\ todo \in [Pollers -> SUBSET Tasks]
            /\ cur \in [Pollers -> Tasks \cup {None}]

UpdateType == /\ {installed, serving, installs, restart} \subseteq Nat
              /\ missed \in BOOLEAN
              /\ kills \in 0..MaxKills

\* A file is never older than one that is written after it ...
Chain == /\ file["conf"] <= file["token"]
         /\ file["token"] <= file["key"]
         /\ file["key"] <= file["cert"]
         /\ file["cert"] <= file["ca"]
         /\ file["ca"] <= issued

\* ... because they are written in this order, of the last enrollment.
Writing ==
  cli.op = "enroll" =>
    /\ cli.enroll = issued
    /\ stamp < MaxWrites
    /\ \A i \in 1..5 : i < cli.step => file[Order[i]] = issued

DiskInv == DiskType /\ Chain /\ Writing

\* What was read of agent.json is what it said at its stamp, or older.
Partial(c) == /\ c.conf <= file["conf"]
              /\ c.read <= stamp
              /\ c.read = stamp => c.conf = file["conf"]

\* What was read after it is not older than that, nor newer than the file.
Held(c) == /\ Partial(c)
           /\ c.conf <= c.token /\ c.conf <= c.ca /\ c.conf <= c.cert
           /\ c.token <= file["token"]
           /\ c.ca <= file["ca"]
           /\ c.cert <= file["cert"]

Reading ==
  /\ pc["loop"] = "token" => Partial(fresh)
  /\ pc["loop"] = "pair" => /\ Partial(fresh)
                            /\ fresh.conf <= fresh.token
                            /\ fresh.token <= file["token"]
  /\ pc["loop"] = "stamp" => Held(fresh)
  /\ Loaded("loop") => Held(cred["loop"])

LoopInv == LoopType /\ Reading
UpdateInv == UpdateType /\ UpdateReachesLoop
AgentInv == DiskInv /\ LoopInv /\ WorkType /\ UpdateInv

-------------------------------------------------------------------------------
(* Constants *)

LEMMA Values ==
  /\ MaxWrites \in Nat /\ MaxEnrolls \in Nat /\ MaxKills \in Nat
  /\ 0 \in Enrolls /\ Enrolls \subseteq Nat /\ 0 \in 0..MaxWrites
  /\ 0 \in 0..MaxKills
  /\ Updates \subseteq Tasks /\ Target \in [Updates -> Nat]
  BY AgentLoopAssumption DEF Enrolls

LEMMA Nones ==
  /\ NoCred \in Cred /\ Idle \in Cli
  /\ NoCred.read = 0 /\ Idle.op = "idle"
  BY Values DEF NoCred, Cred, Idle, Cli

LEMMA Orders ==
  /\ Len(Order) = 5
  /\ Order[1] = "ca" /\ Order[2] = "cert" /\ Order[3] = "key"
  /\ Order[4] = "token" /\ Order[5] = "conf"
  BY DEF Order

\* The invariants put together are the type invariant.
LEMMA Types == AgentInv => TypeOK
  BY DEF AgentInv, DiskInv, LoopInv, UpdateInv, DiskType, LoopType, WorkType,
         UpdateType, TypeOK

-------------------------------------------------------------------------------
(* The start *)

LEMMA InitAgent == Init => AgentInv
<1> SUFFICES ASSUME Init
             PROVE  AgentInv
  OBVIOUS
<1>1. DiskInv
  <2>1. DiskType
    BY Values, Nones DEF Init, DiskType
  <2>2. Chain
    BY DEF Init, Chain, Files
  <2>3. Writing
    BY Nones DEF Init, Writing
  <2>4. QED
    BY <2>1, <2>2, <2>3 DEF DiskInv
<1>2. LoopInv
  <2>1. LoopType
    BY Values, Nones DEF Init, LoopType, Labels
  <2>2. Reading
    BY DEF Init, Reading, Loaded, Pollers
  <2>3. QED
    BY <2>1, <2>2 DEF LoopInv
<1>3. WorkType
  BY Nones DEF Init, WorkType, HubTask
<1>4. UpdateInv
  <2>1. UpdateType
    BY Values DEF Init, UpdateType
  <2>2. UpdateReachesLoop
    BY DEF Init, UpdateReachesLoop, Pollers
  <2>3. QED
    BY <2>1, <2>2 DEF UpdateInv
<1>5. QED
  BY <1>1, <1>2, <1>3, <1>4 DEF AgentInv

-------------------------------------------------------------------------------
(* The files *)

\* How the files change: they grow, and agent.json changes with its stamp.
Grown == /\ \A f \in Files : file[f] <= file'[f]
         /\ stamp <= stamp'
         /\ stamp' = stamp => file'["conf"] = file["conf"]

LEMMA FileNats ==
  ASSUME DiskInv
  PROVE  /\ stamp \in Nat /\ issued \in Nat
         /\ \A f \in Files : file[f] \in Nat
<1>1. stamp \in Nat
  BY Values DEF DiskInv, DiskType
<1>2. issued \in Nat
  BY Values DEF DiskInv, DiskType
<1>3. \A f \in Files : file[f] \in Nat
  BY Values DEF DiskInv, DiskType
<1>4. QED
  BY <1>1, <1>2, <1>3

\* A step that does not write a file, and leaves the command line alone or ends
\* it.
LEMMA DiskKept ==
  ASSUME DiskInv, UNCHANGED <<issued, file, stamp>>, cli' = cli \/ cli' = Idle
  PROVE  DiskInv' /\ Grown
<1>1. DiskType'
  BY Nones DEF DiskInv, DiskType
<1>2. Chain'
  BY DEF DiskInv, Chain
<1>3. Writing'
  BY Nones DEF DiskInv, Writing
<1>4. Grown
  <2>1. stamp \in Nat /\ \A f \in Files : file[f] \in Nat
    BY FileNats
  <2>2. QED
    BY <2>1 DEF Grown
<1>5. QED
  BY <1>1, <1>2, <1>3, <1>4 DEF DiskInv

LEMMA RedeemDisk ==
  ASSUME DiskInv, Redeem
  PROVE  DiskInv' /\ Grown
<1>1. /\ issued \in Nat /\ issued' = issued + 1 /\ issued + 1 \in Enrolls
      /\ stamp < MaxWrites /\ UNCHANGED <<file, stamp>>
      /\ \A f \in Files : file[f] \in Nat
  BY Values DEF Redeem, DiskInv, DiskType, Enrolls
<1>2. cli = Idle /\ (cli' = cli \/ cli' = [op |-> "enroll", enroll |-> issued + 1, step |-> 1])
  BY <1>1 DEF Redeem
<1>3. DiskType'
  <2>1. cli' \in Cli
    BY <1>1, <1>2, Nones DEF Cli
  <2>2. QED
    BY <1>1, <2>1 DEF DiskInv, DiskType
<1>4. Chain'
  BY <1>1 DEF DiskInv, Chain, Files
<1>5. Writing'
  BY <1>1, <1>2, Nones DEF Writing
<1>6. Grown
  BY <1>1 DEF Grown, DiskInv, DiskType
<1>7. QED
  BY <1>3, <1>4, <1>5, <1>6 DEF DiskInv

LEMMA SetIPModeDisk ==
  ASSUME DiskInv, SetIPMode
  PROVE  DiskInv' /\ Grown
<1>1. /\ stamp \in 0..MaxWrites /\ stamp < MaxWrites /\ stamp' = stamp + 1
      /\ cli = Idle /\ UNCHANGED <<issued, file, cli>>
      /\ \A f \in Files : file[f] \in Nat
  BY Values DEF SetIPMode, DiskInv, DiskType
<1>2. stamp' \in 0..MaxWrites
  BY <1>1, Values
<1>3. QED
  BY <1>1, <1>2, Nones DEF DiskInv, DiskType, Chain, Writing, Grown

\* Writing the next file keeps the order.
LEMMA WriteFileDisk ==
  ASSUME DiskInv, WriteFile
  PROVE  DiskInv' /\ Grown
<1> DEFINE f == Order[cli.step]
<1>1. /\ cli.op = "enroll" /\ cli.enroll = issued /\ stamp < MaxWrites
      /\ cli.step \in 1..5 /\ cli \in Cli
      /\ \A i \in 1..5 : i < cli.step => file[Order[i]] = issued
  BY DEF WriteFile, DiskInv, DiskType, Cli, Writing
<1>2. /\ file' = [file EXCEPT ![f] = issued] /\ issued' = issued
      /\ stamp' = IF f = "conf" THEN stamp + 1 ELSE stamp
      /\ cli' = IF cli.step < 5 THEN [cli EXCEPT !.step = cli.step + 1]
                                ELSE [Idle EXCEPT !.op = "poll"]
  BY <1>1, Orders DEF WriteFile
<1>3. /\ issued \in Enrolls /\ issued \in Nat /\ file \in [Files -> Enrolls]
      /\ stamp \in Nat /\ \A g \in Files : file[g] \in Nat
  BY FileNats DEF DiskInv, DiskType
<1>4. /\ Files = {"ca", "cert", "key", "token", "conf"}
      /\ f \in Files
  BY <1>1, Orders DEF Files
<1>5. /\ file'[f] = issued /\ \A g \in Files : g # f => file'[g] = file[g]
  BY <1>2, <1>3, <1>4
<1>6. Chain
  BY DEF DiskInv
<1>7. \A g \in Files : file[g] <= issued
  BY <1>3, <1>4, <1>6 DEF Chain
<1>8. Chain'
  <2>1. CASE cli.step = 1
    BY <1>1, <1>2, <1>3, <1>4, <1>5, <1>6, <1>7, <2>1, Orders DEF Chain
  <2>2. CASE cli.step = 2
    <3>1. f = "cert" /\ file["ca"] = issued
      BY <1>1, <2>2, Orders
    <3>2. QED
      BY <1>2, <1>3, <1>4, <1>5, <1>6, <1>7, <3>1 DEF Chain
  <2>3. CASE cli.step = 3
    <3>1. f = "key" /\ file["cert"] = issued
      BY <1>1, <2>3, Orders
    <3>2. QED
      BY <1>2, <1>3, <1>4, <1>5, <1>6, <1>7, <3>1 DEF Chain
  <2>4. CASE cli.step = 4
    <3>1. f = "token" /\ file["key"] = issued
      BY <1>1, <2>4, Orders
    <3>2. QED
      BY <1>2, <1>3, <1>4, <1>5, <1>6, <1>7, <3>1 DEF Chain
  <2>5. CASE cli.step = 5
    <3>1. f = "conf" /\ file["token"] = issued
      BY <1>1, <2>5, Orders
    <3>2. QED
      BY <1>2, <1>3, <1>4, <1>5, <1>6, <1>7, <3>1 DEF Chain
  <2>6. QED
    BY <1>1, <2>1, <2>2, <2>3, <2>4, <2>5
<1>9. DiskType'
  <2>1. cli' \in Cli
    <3>1. CASE cli.step < 5
      <4>1. cli.step + 1 \in 1..5
        BY <1>1, <3>1
      <4>2. QED
        BY <1>1, <1>2, <3>1, <4>1 DEF Cli
    <3>2. CASE ~(cli.step < 5)
      BY <1>2, <3>2, Nones DEF Cli
    <3>3. QED
      BY <3>1, <3>2
  <2>2. stamp' \in 0..MaxWrites
    BY <1>1, <1>2, <1>3, Values
  <2>3. QED
    BY <1>2, <1>3, <2>1, <2>2 DEF DiskType
<1>10. Writing'
  <2>1. SUFFICES ASSUME cli'.op = "enroll"
                 PROVE  /\ cli'.enroll = issued /\ stamp' < MaxWrites
                        /\ \A i \in 1..5 : i < cli'.step => file'[Order[i]] = issued
    BY <1>2 DEF Writing
  <2>2. cli.step < 5 /\ cli'.step = cli.step + 1 /\ cli'.enroll = issued
    BY <1>1, <1>2, <2>1 DEF Cli, Idle
  <2>3. f # "conf"
    BY <1>1, <2>2, Orders
  <2>4. ASSUME NEW i \in 1..5, i < cli.step + 1
        PROVE  file'[Order[i]] = issued
    <3>1. Order[i] \in Files
      BY <1>4, Orders
    <3>2. CASE Order[i] = f
      BY <1>5, <3>2
    <3>3. CASE Order[i] # f
      <4>1. i < cli.step
        BY <1>1, <2>4, <3>3
      <4>2. QED
        BY <1>1, <1>5, <3>1, <3>3, <4>1
    <3>4. QED
      BY <3>2, <3>3
  <2>5. QED
    BY <1>1, <1>2, <2>2, <2>3, <2>4
<1>11. Grown
  BY <1>2, <1>3, <1>4, <1>5, <1>7 DEF Grown
<1>12. QED
  BY <1>8, <1>9, <1>10, <1>11 DEF DiskInv

-------------------------------------------------------------------------------
(* What the loop has read *)

\* What was read stays as old as the files, or older.
LEMMA PartialKept ==
  ASSUME DiskInv, DiskInv', Grown, NEW c \in Cred, Partial(c)
  PROVE  /\ c.conf <= file'["conf"]
         /\ c.read <= stamp'
         /\ c.read = stamp' => c.conf = file'["conf"]
<1>1. c.conf \in Nat /\ c.read \in Nat
  BY Values DEF Cred
<1>2. file["conf"] \in Nat /\ stamp \in Nat
  BY FileNats DEF Files
<1>3. file'["conf"] \in Nat /\ stamp' \in Nat
  <2>1. file' \in [Files -> Enrolls] /\ stamp' \in 0..MaxWrites
    BY DEF DiskInv, DiskType
  <2>2. file'["conf"] \in Nat
    BY <2>1, Values DEF Files
  <2>3. stamp' \in Nat
    BY <2>1, Values
  <2>4. QED
    BY <2>2, <2>3
<1>4. file["conf"] <= file'["conf"]
  BY DEF Grown, Files
<1>5. QED
  BY <1>1, <1>2, <1>3, <1>4 DEF Partial, Grown

LEMMA HeldKept ==
  ASSUME DiskInv, DiskInv', Grown, NEW c \in Cred, Held(c)
  PROVE  /\ c.conf <= file'["conf"]
         /\ c.read <= stamp'
         /\ c.read = stamp' => c.conf = file'["conf"]
         /\ c.conf <= c.token /\ c.conf <= c.ca /\ c.conf <= c.cert
         /\ c.token <= file'["token"]
         /\ c.ca <= file'["ca"]
         /\ c.cert <= file'["cert"]
<1>1. c.token \in Nat /\ c.ca \in Nat /\ c.cert \in Nat
  BY Values DEF Cred
<1>2. \A f \in Files : file[f] \in Nat
  BY FileNats
<1>3. \A f \in Files : file'[f] \in Nat
  BY Values DEF DiskInv, DiskType
<1>4. {"token", "ca", "cert"} \subseteq Files
  BY DEF Files
<1>5. \A f \in Files : file[f] <= file'[f]
  BY DEF Grown
<1>6. Partial(c)
  BY DEF Held
<1>7. QED
  BY <1>1, <1>2, <1>3, <1>4, <1>5, <1>6, PartialKept DEF Held

\* The loop goes on reading, or is not reading; it keeps what it holds, or
\* drops it.
LEMMA ReadingKept ==
  ASSUME DiskInv, DiskInv', Grown, LoopInv,
         \/ fresh' = fresh /\ pc'["loop"] = pc["loop"]
         \/ pc'["loop"] \notin {"token", "pair", "stamp"},
         cred'["loop"] = cred["loop"] \/ cred'["loop"] = NoCred
  PROVE  Reading'
<1>1. fresh \in Cred /\ cred["loop"] \in Cred
  BY DEF LoopInv, LoopType, Pollers
<1>2. /\ file["token"] \in Nat /\ file'["token"] \in Nat
      /\ file["token"] <= file'["token"]
  BY FileNats, Values DEF DiskInv, DiskType, Files, Grown
<1>3. fresh.token \in Nat
  BY <1>1, Values DEF Cred
<1>4. pc'["loop"] = "token" => Partial(fresh)'
  BY <1>1, PartialKept DEF LoopInv, Reading, Partial
<1>5. pc'["loop"] = "pair" => /\ Partial(fresh)'
                              /\ fresh'.conf <= fresh'.token
                              /\ fresh'.token <= file'["token"]
  BY <1>1, <1>2, <1>3, PartialKept DEF LoopInv, Reading, Partial
<1>6. pc'["loop"] = "stamp" => Held(fresh)'
  BY <1>1, HeldKept DEF LoopInv, Reading, Held, Partial
<1>7. Loaded("loop")' => Held(cred["loop"])'
  <2>1. SUFFICES ASSUME cred'["loop"] # NoCred
                 PROVE  Held(cred["loop"])'
    BY DEF Loaded
  <2>2. cred'["loop"] = cred["loop"] /\ Held(cred["loop"])
    BY <2>1 DEF LoopInv, Reading, Loaded
  <2>3. QED
    BY <1>1, <2>2, HeldKept DEF Held, Partial
<1>8. QED
  BY <1>4, <1>5, <1>6, <1>7 DEF Reading

-------------------------------------------------------------------------------
(* The command line and the updates *)

\* Nothing is installed or restarted, a scheduling of the restart stays due, and
\* the loop is not started.
LEMMA UpdateKept ==
  ASSUME UpdateInv, UNCHANGED update, kills' \in 0..MaxKills,
         \A q \in Pollers : pc[q] = "schedule" => pc'[q] = "schedule",
         pc["loop"] = "down" => pc'["loop"] = "down"
  PROVE  UpdateInv'
<1>1. UpdateType'
  BY DEF UpdateInv, UpdateType
<1>2. UpdateReachesLoop'
  BY DEF UpdateInv, UpdateReachesLoop
<1>3. QED
  BY <1>1, <1>2 DEF UpdateInv

\* A poller moves on that neither is to schedule a restart nor is down.
LEMMA UpdateMoves ==
  ASSUME UpdateInv, pc \in [Pollers -> Labels], UNCHANGED <<update, kills>>,
         NEW p \in Pollers, NEW l, pc' = [pc EXCEPT ![p] = l],
         pc[p] \notin {"down", "schedule"}
  PROVE  UpdateInv'
<1>1. /\ \A q \in Pollers : pc[q] = "schedule" => pc'[q] = "schedule"
      /\ pc["loop"] = "down" => pc'["loop"] = "down"
  BY DEF Pollers
<1>2. kills' \in 0..MaxKills
  BY DEF UpdateInv, UpdateType
<1>3. QED
  BY <1>1, <1>2, UpdateKept

\* A step of the command line that only writes files, or asks for an enrollment.
LEMMA FilesKept ==
  ASSUME AgentInv, DiskInv', Grown, UNCHANGED <<task, work, loop, update, kills>>
  PROVE  AgentInv'
<1>1. LoopType'
  BY DEF AgentInv, LoopInv, LoopType
<1>2. Reading'
  BY ReadingKept DEF AgentInv
<1>3. WorkType'
  BY DEF AgentInv, WorkType
<1>4. UpdateInv'
  BY UpdateKept DEF AgentInv, UpdateInv, UpdateType
<1>5. QED
  BY <1>1, <1>2, <1>3, <1>4 DEF AgentInv, LoopInv

\* What agent-enroll --poll-once signs with.
LEMMA FilesCredType ==
  ASSUME DiskInv
  PROVE  FilesCred \in Cred
<1>1. file["conf"] \in Enrolls /\ file["token"] \in Enrolls
      /\ file["ca"] \in Enrolls /\ file["cert"] \in Enrolls
  BY DEF DiskInv, DiskType, Files
<1>2. stamp \in Nat
  BY FileNats
<1>3. QED
  BY <1>1, <1>2 DEF FilesCred, Cred

LEMMA EnrollEndsStep ==
  ASSUME AgentInv, NEW polls \in BOOLEAN, EnrollEnds(polls)
  PROVE  AgentInv'
<1>1. DiskInv' /\ Grown
  BY DiskKept DEF EnrollEnds, AgentInv
<1>2. pc'["loop"] = pc["loop"] /\ cred'["loop"] = cred["loop"]
  BY DEF EnrollEnds, AgentInv, LoopInv, LoopType, Pollers
<1>3. LoopType'
  <2>1. pc' \in [Pollers -> Labels]
    BY DEF EnrollEnds, AgentInv, LoopInv, LoopType, Labels
  <2>2. cred' \in [Pollers -> Cred]
    BY FilesCredType DEF EnrollEnds, AgentInv, LoopInv, LoopType
  <2>3. QED
    BY <2>1, <2>2 DEF EnrollEnds, AgentInv, LoopInv, LoopType
<1>4. Reading'
  BY <1>1, <1>2, ReadingKept DEF AgentInv, EnrollEnds
<1>5. WorkType'
  BY DEF AgentInv, WorkType, EnrollEnds
<1>6. UpdateInv'
  <2>1. \A q \in Pollers : pc[q] = "schedule" => pc'[q] = "schedule"
    BY DEF EnrollEnds, AgentInv, LoopInv, LoopType
  <2>2. QED
    BY <1>2, <2>1, UpdateKept DEF AgentInv, UpdateInv, UpdateType, EnrollEnds
<1>7. QED
  BY <1>1, <1>3, <1>4, <1>5, <1>6 DEF AgentInv, LoopInv

-------------------------------------------------------------------------------
(* Loading *)

\* A step of the loop that loads: it moves pc, and the Hub, the tasks and the
\* updates are as they were.
LEMMA LoadKept ==
  ASSUME AgentInv, UNCHANGED <<hub, disk, cli, todo, cur, update, kills>>,
         NEW l, pc["loop"] \in Loading \cup {"sleep"}, Goto("loop", l)
  PROVE  DiskInv' /\ Grown /\ WorkType' /\ UpdateInv'
<1>1. DiskInv' /\ Grown
  BY DiskKept DEF AgentInv
<1>2. WorkType'
  BY DEF AgentInv, WorkType
<1>3. UpdateInv'
  <2>1. pc["loop"] \notin {"down", "schedule"}
    BY DEF Loading
  <2>2. QED
    BY <2>1, UpdateMoves DEF AgentInv, LoopInv, LoopType, Goto, Pollers
<1>4. QED
  BY <1>1, <1>2, <1>3

LEMMA Loops ==
  ASSUME LoopInv
  PROVE  /\ "loop" \in Pollers /\ "once" \in Pollers
         /\ pc \in [Pollers -> Labels] /\ cred \in [Pollers -> Cred]
         /\ cred["loop"] \in Cred /\ fresh \in Cred
  BY DEF LoopInv, LoopType, Pollers

LEMMA StartLoopStep ==
  ASSUME AgentInv, StartLoop
  PROVE  AgentInv'
<1>1. DiskInv' /\ Grown /\ WorkType' /\ UpdateInv'
  <2>1. DiskInv' /\ Grown
    BY DiskKept DEF AgentInv, StartLoop
  <2>2. WorkType'
    BY DEF AgentInv, WorkType, StartLoop
  <2>3. UpdateInv'
    BY DEF AgentInv, UpdateInv, UpdateType, UpdateReachesLoop, StartLoop
  <2>4. QED
    BY <2>1, <2>2, <2>3
<1>2. pc' = [pc EXCEPT !["loop"] = "conf"] /\ UNCHANGED <<cred, seen, fresh>>
  BY DEF StartLoop, Goto
<1>3. LoopType'
  BY <1>2, Nones, Values DEF StartLoop, AgentInv, LoopInv, LoopType, Labels,
                             Loading
<1>4. pc'["loop"] = "conf"
  BY <1>2, Loops DEF AgentInv
<1>5. Reading'
  BY <1>1, <1>2, <1>4, ReadingKept DEF AgentInv
<1>6. QED
  BY <1>1, <1>3, <1>5 DEF AgentInv, LoopInv

LEMMA WakeStep ==
  ASSUME AgentInv, Wake
  PROVE  AgentInv'
<1>1. DiskInv' /\ Grown /\ WorkType' /\ UpdateInv'
  BY LoadKept DEF Wake, Loading
<1>2. /\ \/ pc' = [pc EXCEPT !["loop"] = "beat"]
         \/ pc' = [pc EXCEPT !["loop"] = "conf"]
      /\ UNCHANGED <<cred, seen, fresh>>
  BY DEF Wake, Goto
<1>3. LoopType'
  BY <1>2, Nones, Values DEF AgentInv, LoopInv, LoopType, Labels, Loading
<1>4. pc'["loop"] \notin {"token", "pair", "stamp"}
  BY <1>2, Loops DEF AgentInv
<1>5. Reading'
  BY <1>1, <1>2, <1>4, ReadingKept DEF AgentInv
<1>6. QED
  BY <1>1, <1>3, <1>5 DEF AgentInv, LoopInv

LEMMA LoadFailsStep ==
  ASSUME AgentInv, LoadFails
  PROVE  AgentInv'
<1>1. DiskInv' /\ Grown /\ WorkType' /\ UpdateInv'
  BY LoadKept DEF LoadFails, Loading
<1>2. /\ \/ pc' = [pc EXCEPT !["loop"] = "beat"]
         \/ pc' = [pc EXCEPT !["loop"] = "down"]
      /\ fresh' = NoCred
      /\ UNCHANGED <<cred, seen>>
  BY DEF LoadFails, Goto
<1>3. LoopType'
  BY <1>2, Nones, Values DEF AgentInv, LoopInv, LoopType, Labels
<1>4. pc'["loop"] \notin {"token", "pair", "stamp"}
  BY <1>2, Loops DEF AgentInv
<1>5. Reading'
  BY <1>1, <1>2, <1>4, ReadingKept DEF AgentInv
<1>6. QED
  BY <1>1, <1>3, <1>5 DEF AgentInv, LoopInv

LEMMA ReadConfStep ==
  ASSUME AgentInv, ReadConf
  PROVE  AgentInv'
<1>1. DiskInv' /\ Grown /\ WorkType' /\ UpdateInv'
  BY LoadKept DEF ReadConf, Loading
<1>2. /\ pc' = [pc EXCEPT !["loop"] = "token"]
      /\ UNCHANGED <<cred, seen, file, stamp>>
  BY DEF ReadConf, Goto
<1>3. fresh \in Cred /\ file["conf"] \in Enrolls /\ stamp \in Nat
  BY FileNats, Loops DEF AgentInv, DiskInv, DiskType, Files
<1>4. /\ fresh' \in Cred
      /\ fresh'.conf = file["conf"] /\ fresh'.read = stamp
  BY <1>3 DEF ReadConf, Cred
<1>5. LoopType'
  BY <1>2, <1>4 DEF AgentInv, LoopInv, LoopType, Labels, Loading
<1>6. pc'["loop"] = "token"
  BY <1>2, Loops DEF AgentInv
<1>7. Partial(fresh)'
  <2>1. file["conf"] \in Nat
    BY FileNats DEF AgentInv, Files
  <2>2. QED
    BY <1>2, <1>3, <1>4, <2>1 DEF Partial
<1>8. Reading'
  BY <1>2, <1>6, <1>7, Loops DEF Reading, Loaded, AgentInv, LoopInv, Held,
                                 Partial
<1>9. QED
  BY <1>1, <1>5, <1>8 DEF AgentInv, LoopInv

LEMMA ReadTokenStep ==
  ASSUME AgentInv, ReadToken
  PROVE  AgentInv'
<1>1. DiskInv' /\ Grown /\ WorkType' /\ UpdateInv'
  BY LoadKept DEF ReadToken, Loading
<1>2. /\ pc' = [pc EXCEPT !["loop"] = "pair"]
      /\ UNCHANGED <<cred, seen, file, stamp>>
  BY DEF ReadToken, Goto
<1>3. fresh \in Cred /\ file["token"] \in Enrolls
  BY Loops DEF AgentInv, DiskInv, DiskType, Files
<1>4. /\ fresh' \in Cred /\ fresh'.token = file["token"]
      /\ fresh'.conf = fresh.conf /\ fresh'.read = fresh.read
  BY <1>3 DEF ReadToken, Cred
<1>5. LoopType'
  BY <1>2, <1>4 DEF AgentInv, LoopInv, LoopType, Labels, Loading
<1>6. pc'["loop"] = "pair"
  BY <1>2, Loops DEF AgentInv
<1>7. Partial(fresh)
  BY DEF ReadToken, AgentInv, LoopInv, Reading
<1>8. /\ Partial(fresh)' /\ fresh'.conf <= fresh'.token
      /\ fresh'.token <= file'["token"]
  <2>1. file["conf"] <= file["token"]
    BY DEF AgentInv, DiskInv, Chain
  <2>2. file["conf"] \in Nat /\ file["token"] \in Nat
    BY FileNats DEF AgentInv, Files
  <2>3. fresh.conf \in Nat
    BY <1>3, Values DEF Cred
  <2>4. QED
    BY <1>2, <1>4, <1>7, <2>1, <2>2, <2>3 DEF Partial
<1>9. Reading'
  BY <1>2, <1>6, <1>8, Loops DEF Reading, Loaded, AgentInv, LoopInv, Held,
                                 Partial
<1>10. QED
  BY <1>1, <1>5, <1>9 DEF AgentInv, LoopInv

LEMMA ReadPairStep ==
  ASSUME AgentInv, ReadPair
  PROVE  AgentInv'
<1>1. DiskInv' /\ Grown /\ WorkType' /\ UpdateInv'
  BY LoadKept DEF ReadPair, Loading
<1>2. /\ pc' = [pc EXCEPT !["loop"] = "stamp"]
      /\ UNCHANGED <<cred, seen, file, stamp>>
  BY DEF ReadPair, Goto
<1>3. fresh \in Cred /\ file["ca"] \in Enrolls /\ file["cert"] \in Enrolls
  BY Loops DEF AgentInv, DiskInv, DiskType, Files
<1>4. /\ fresh' \in Cred
      /\ fresh'.ca = file["ca"] /\ fresh'.cert = file["cert"]
      /\ fresh'.conf = fresh.conf /\ fresh'.read = fresh.read
      /\ fresh'.token = fresh.token
  BY <1>3 DEF ReadPair, Cred
<1>5. LoopType'
  BY <1>2, <1>4 DEF AgentInv, LoopInv, LoopType, Labels, Loading
<1>6. pc'["loop"] = "stamp"
  BY <1>2, Loops DEF AgentInv
<1>7. /\ Partial(fresh) /\ fresh.conf <= fresh.token
      /\ fresh.token <= file["token"]
  BY DEF ReadPair, AgentInv, LoopInv, Reading
<1>8. Held(fresh)'
  <2>1. \A f \in Files : file[f] \in Nat
    BY FileNats DEF AgentInv
  <2>2. file["conf"] <= file["cert"] /\ file["conf"] <= file["ca"]
    BY <2>1 DEF AgentInv, DiskInv, Chain, Files
  <2>3. fresh.conf \in Nat
    BY <1>3, Values DEF Cred
  <2>4. QED
    BY <1>2, <1>4, <1>7, <2>1, <2>2, <2>3 DEF Held, Partial, Files
<1>9. Reading'
  BY <1>2, <1>6, <1>8, Loops DEF Reading, Loaded, AgentInv, LoopInv, Held,
                                 Partial
<1>10. QED
  BY <1>1, <1>5, <1>9 DEF AgentInv, LoopInv

LEMMA TakeStampStep ==
  ASSUME AgentInv, TakeStamp
  PROVE  AgentInv'
<1>1. DiskInv' /\ Grown /\ WorkType' /\ UpdateInv'
  BY LoadKept DEF TakeStamp, Loading
<1>2. /\ pc' = [pc EXCEPT !["loop"] = "beat"]
      /\ cred' = [cred EXCEPT !["loop"] = fresh]
      /\ seen' = stamp /\ fresh' = NoCred
      /\ UNCHANGED <<file, stamp>>
  BY DEF TakeStamp, Goto
<1>3. LoopType'
  BY <1>2, Values, Nones DEF AgentInv, LoopInv, LoopType, Labels, DiskInv,
                             DiskType
<1>4. pc'["loop"] = "beat" /\ cred'["loop"] = fresh
  BY <1>2, Loops DEF AgentInv
<1>5. Held(fresh)
  BY DEF TakeStamp, AgentInv, LoopInv, Reading
<1>6. Reading'
  BY <1>2, <1>4, <1>5 DEF Reading, Held, Partial
<1>7. QED
  BY <1>1, <1>3, <1>6 DEF AgentInv, LoopInv

-------------------------------------------------------------------------------
(* Polling *)

\* A poller moves on, holding what it holds or nothing, and not to a read.
LEMMA PollerMoves ==
  ASSUME AgentInv, NEW p \in Pollers, NEW l \in Labels \ Loading,
         UNCHANGED <<issued, disk>>, cli' = cli \/ cli' = Idle,
         Goto(p, l),
         cred' = cred \/ cred' = [cred EXCEPT ![p] = NoCred],
         \/ UNCHANGED loop
         \/ p = "loop" /\ fresh' = NoCred /\ seen' = 0
  PROVE  DiskInv' /\ LoopInv'
<1>1. DiskInv' /\ Grown
  BY DiskKept DEF AgentInv
<1>2. pc' = [pc EXCEPT ![p] = l] /\ l \in Labels /\ l \notin Loading
  BY DEF Goto
<1>3. LoopType'
  BY <1>2, Nones, Values DEF AgentInv, LoopInv, LoopType
<1>4. \/ fresh' = fresh /\ pc'["loop"] = pc["loop"]
      \/ pc'["loop"] \notin {"token", "pair", "stamp"}
  BY <1>2, Loops DEF AgentInv, Loading
<1>5. cred'["loop"] = cred["loop"] \/ cred'["loop"] = NoCred
  BY Loops DEF AgentInv
<1>6. Reading'
  BY <1>1, <1>4, <1>5, ReadingKept DEF AgentInv
<1>7. QED
  BY <1>1, <1>3, <1>6 DEF LoopInv

LEMMA NotLoading ==
  {"down", "beat", "get", "run", "install", "schedule", "post", "sleep"}
    \subseteq Labels \ Loading
  BY DEF Labels, Loading

\* A poller moves on that did not install or schedule: nothing but its own work
\* changes.
LEMMA PollerWorks ==
  ASSUME AgentInv, NEW p \in Pollers, NEW l \in Labels \ Loading,
         UNCHANGED <<issued, disk, loop, update, kills>>,
         cli' = cli \/ cli' = Idle, Goto(p, l),
         pc[p] \notin {"down", "schedule"},
         cred' = cred \/ cred' = [cred EXCEPT ![p] = NoCred]
  PROVE  DiskInv' /\ LoopInv' /\ UpdateInv'
<1>1. DiskInv' /\ LoopInv'
  BY PollerMoves
<1>2. UpdateInv'
  BY UpdateMoves DEF AgentInv, LoopInv, LoopType, Goto
<1>3. QED
  BY <1>1, <1>2

\* pollOnce returns.
LEMMA ReturnKept ==
  ASSUME AgentInv, NEW p \in Pollers, Return(p),
         pc[p] \notin {"down", "schedule"},
         UNCHANGED <<issued, disk, loop, update, kills>>
  PROVE  /\ DiskInv' /\ LoopInv' /\ UpdateInv'
         /\ todo' \in [Pollers -> SUBSET Tasks]
         /\ cur' \in [Pollers -> Tasks \cup {None}]
<1>1. todo' \in [Pollers -> SUBSET Tasks] /\ cur' \in [Pollers -> Tasks \cup {None}]
  BY DEF Return, AgentInv, WorkType
<1>2. \E l \in Labels \ Loading : Goto(p, l)
  BY NotLoading DEF Return
<1>3. /\ cli' = cli \/ cli' = Idle
      /\ cred' = cred \/ cred' = [cred EXCEPT ![p] = NoCred]
  BY DEF Return
<1>4. QED
  BY <1>1, <1>2, <1>3, PollerWorks

\* The answers to a poll change the status and the leases of tasks.
LEMMA LeaseType ==
  ASSUME WorkType, NEW p \in Pollers, NEW stale \in SUBSET Tasks,
         NEW leased \in SUBSET Tasks, Lease(p, stale, leased)
  PROVE  task' \in [Tasks -> HubTask]
<1> DEFINE F(t) == IF t \in stale THEN Recovered(task[t]) ELSE task[t]
<1>1. ASSUME NEW t \in Tasks
      PROVE  F(t) \in HubTask
  BY DEF WorkType, HubTask, Recovered
<1>2. ASSUME NEW f \in HubTask
      PROVE  [f EXCEPT !.status = "running", !.leases = @ + 1] \in HubTask
  <2>1. f.leases + 1 \in Nat
    BY DEF HubTask
  <2>2. QED
    BY <2>1 DEF HubTask
<1>3. task' = [t \in Tasks |->
                 IF t \in leased
                 THEN [F(t) EXCEPT !.status = "running", !.leases = @ + 1]
                 ELSE F(t)]
  BY DEF Lease
<1> HIDE DEF F
<1>4. QED
  BY <1>1, <1>2, <1>3

LEMMA CompleteType ==
  ASSUME WorkType, NEW t \in Tasks \cup {None}, Complete(t)
  PROVE  task' \in [Tasks -> HubTask]
<1>1. task \in [Tasks -> HubTask]
  BY DEF WorkType
<1>2. CASE t \in Tasks
  <2>1. [task[t] EXCEPT !.status = "ended"] \in HubTask
    BY <1>1, <1>2 DEF HubTask
  <2>2. task' = [task EXCEPT ![t] = [task[t] EXCEPT !.status = "ended"]]
    BY DEF Complete
  <2>3. QED
    BY <1>1, <2>1, <2>2
<1>3. CASE t \notin Tasks
  BY <1>1, <1>3 DEF Complete
<1>4. QED
  BY <1>2, <1>3

LEMMA TookKept ==
  ASSUME AgentInv, NEW p \in Pollers, NEW t \in Tasks,
         NEW l \in Labels \ Loading, Took(p, t, l),
         UNCHANGED <<hub, disk, cli, cred, loop, update, kills>>
  PROVE  AgentInv'
<1>1. /\ Goto(p, l) /\ pc[p] = "run"
      /\ todo' = [todo EXCEPT ![p] = @ \ {t}] /\ cur' = [cur EXCEPT ![p] = t]
  BY DEF Took
<1>2. DiskInv' /\ LoopInv' /\ UpdateInv'
  BY <1>1, PollerWorks
<1>3. WorkType'
  BY <1>1 DEF AgentInv, WorkType
<1>4. QED
  BY <1>2, <1>3 DEF AgentInv

\* The steps of an update that replace the program files and restart the loop.
LEMMA InstallStep ==
  ASSUME AgentInv, NEW p \in Pollers, NEW t \in Updates, Install(p, t)
  PROVE  AgentInv'
<1>1. /\ \/ Goto(p, "schedule") /\ UNCHANGED missed
         \/ Goto(p, "post") /\ missed' = TRUE
      /\ installed' = Target[t] /\ installs' = installs + 1
      /\ UNCHANGED <<hub, disk, cli, cred, todo, cur, loop, serving, restart,
                     kills>>
  BY DEF Install
<1>2. /\ pc \in [Pollers -> Labels] /\ UpdateType /\ Target[t] \in Nat
      /\ "loop" \in Pollers
  BY Values DEF AgentInv, LoopInv, LoopType, UpdateInv, Pollers
<1>3. DiskInv' /\ LoopInv'
  BY <1>1, NotLoading, PollerMoves
<1>4. UpdateType'
  <2>1. installs \in Nat /\ installs + 1 \in Nat
    BY <1>2 DEF UpdateType
  <2>2. missed' \in BOOLEAN
    BY <1>1, <1>2 DEF UpdateType
  <2>3. QED
    BY <1>1, <1>2, <2>1, <2>2 DEF UpdateType
<1>5. UpdateReachesLoop'
  <2>1. CASE Goto(p, "schedule")
    <3>1. pc'[p] = "schedule"
      BY <1>2, <2>1 DEF Goto
    <3>2. QED
      BY <3>1 DEF UpdateReachesLoop
  <2>2. CASE missed' = TRUE
    BY <2>2 DEF UpdateReachesLoop
  <2>3. QED
    BY <1>1, <2>1, <2>2
<1>6. WorkType'
  BY <1>1 DEF AgentInv, WorkType
<1>7. QED
  BY <1>3, <1>4, <1>5, <1>6 DEF AgentInv, UpdateInv

LEMMA ScheduleStep ==
  ASSUME AgentInv, NEW p \in Pollers, Schedule(p)
  PROVE  AgentInv'
<1>1. /\ \/ restart' = restart + 1 /\ UNCHANGED missed
         \/ missed' = TRUE /\ UNCHANGED restart
      /\ Goto(p, "post")
      /\ UNCHANGED <<hub, disk, cli, cred, todo, cur, loop, installed, serving,
                     installs, kills>>
  BY DEF Schedule
<1>2. UpdateType
  BY DEF AgentInv, UpdateInv
<1>3. DiskInv' /\ LoopInv'
  BY <1>1, NotLoading, PollerMoves
<1>4. UpdateType'
  <2>1. restart \in Nat /\ restart + 1 \in Nat
    BY <1>2 DEF UpdateType
  <2>2. missed' \in BOOLEAN
    BY <1>1, <1>2 DEF UpdateType
  <2>3. QED
    BY <1>1, <1>2, <2>1, <2>2 DEF UpdateType
<1>5. restart' > 0 \/ missed'
  BY <1>1, <1>2 DEF UpdateType
<1>6. UpdateReachesLoop'
  BY <1>5 DEF UpdateReachesLoop
<1>7. WorkType'
  BY <1>1 DEF AgentInv, WorkType
<1>8. QED
  BY <1>3, <1>4, <1>6, <1>7 DEF AgentInv, UpdateInv

\* A poll or its end; the tasks become what the answer makes of them.
LEMMA PollStep ==
  ASSUME AgentInv, NEW p \in Pollers, Poll(p)
  PROVE  AgentInv'
<1>1. /\ WorkType /\ cur[p] \in Tasks \cup {None}
      /\ todo \in [Pollers -> SUBSET Tasks]
      /\ cur \in [Pollers -> Tasks \cup {None}]
  BY DEF AgentInv, WorkType
<1>2. CASE Heartbeat(p)
  <2>1. DiskInv' /\ LoopInv' /\ UpdateInv'
    BY <1>2, NotLoading, PollerWorks DEF Heartbeat
  <2>2. QED
    BY <1>1, <1>2, <2>1 DEF AgentInv, WorkType, Heartbeat
<1>3. CASE RequestFails(p) \/ PollEnds(p)
  <2>1. /\ Return(p) /\ UNCHANGED <<hub, disk, loop, update, kills>>
        /\ pc[p] \notin {"down", "schedule"}
    BY <1>3 DEF RequestFails, PollEnds
  <2>2. QED
    BY <1>1, <2>1, ReturnKept DEF AgentInv, WorkType
<1>4. CASE PostResult(p)
  <2>1. task' \in [Tasks -> HubTask]
    BY <1>1, <1>4, CompleteType DEF PostResult
  <2>2. DiskInv' /\ LoopInv' /\ UpdateInv'
    BY <1>4, NotLoading, PollerWorks DEF PostResult
  <2>3. QED
    BY <1>1, <1>4, <2>1, <2>2 DEF AgentInv, WorkType, PostResult
<1>5. CASE ResultAnswerLost(p)
  <2>1. /\ Complete(cur[p]) /\ Return(p) /\ pc[p] = "post"
        /\ UNCHANGED <<issued, disk, loop, update, kills>>
    BY <1>5 DEF ResultAnswerLost
  <2>2. task' \in [Tasks -> HubTask]
    BY <1>1, <2>1, CompleteType
  <2>3. QED
    BY <2>1, <2>2, ReturnKept DEF AgentInv, WorkType
<1>6. ASSUME NEW stale \in SUBSET Tasks, NEW leased \in SUBSET Tasks,
             GetTasks(p, stale, leased)
      PROVE  AgentInv'
  <2>1. task' \in [Tasks -> HubTask]
    BY <1>1, <1>6, LeaseType DEF GetTasks
  <2>2. DiskInv' /\ LoopInv' /\ UpdateInv'
    BY <1>6, NotLoading, PollerWorks DEF GetTasks
  <2>3. QED
    BY <1>1, <1>6, <2>1, <2>2 DEF AgentInv, WorkType, GetTasks
<1>7. ASSUME NEW stale \in SUBSET Tasks, NEW leased \in SUBSET Tasks,
             TasksLost(p, stale, leased)
      PROVE  AgentInv'
  <2>1. /\ Lease(p, stale, leased) /\ Return(p) /\ pc[p] = "get"
        /\ UNCHANGED <<issued, disk, loop, update, kills>>
    BY <1>7 DEF TasksLost
  <2>2. task' \in [Tasks -> HubTask]
    BY <1>1, <2>1, LeaseType
  <2>3. QED
    BY <2>1, <2>2, ReturnKept DEF AgentInv, WorkType
<1>8. ASSUME NEW t \in Tasks, Run(p, t)
      PROVE  AgentInv'
  BY <1>8, NotLoading, TookKept DEF Run
<1>9. ASSUME NEW t \in Updates, Compare(p, t)
      PROVE  AgentInv'
  BY <1>9, NotLoading, TookKept, Values DEF Compare
<1>10. CASE InstallFails(p)
  <2>1. DiskInv' /\ LoopInv' /\ UpdateInv'
    BY <1>10, NotLoading, PollerWorks DEF InstallFails
  <2>2. QED
    BY <1>1, <1>10, <2>1 DEF AgentInv, WorkType, InstallFails
<1>11. QED
  BY <1>2, <1>3, <1>4, <1>5, <1>6, <1>7, <1>8, <1>9, <1>10, InstallStep,
     ScheduleStep DEF Poll

-------------------------------------------------------------------------------
(* Restarts and kills *)

\* A process stops, whether the restart or a kill stops it.
LEMMA StopKept ==
  ASSUME AgentInv, NEW p \in Pollers, Stop(p),
         UNCHANGED <<hub, disk>>, cli' = cli \/ cli' = Idle,
         \/ UNCHANGED loop
         \/ p = "loop" /\ fresh' = NoCred /\ seen' = 0
  PROVE  DiskInv' /\ LoopInv' /\ WorkType'
<1>1. /\ Goto(p, "down") /\ cred' = [cred EXCEPT ![p] = NoCred]
      /\ todo' = [todo EXCEPT ![p] = {}]
      /\ cur' = [cur EXCEPT ![p] = None]
  BY DEF Stop
<1>2. DiskInv' /\ LoopInv'
  BY <1>1, NotLoading, PollerMoves
<1>3. WorkType'
  BY <1>1 DEF AgentInv, WorkType
<1>4. QED
  BY <1>2, <1>3

LEMMA LoopStops ==
  ASSUME AgentInv, StopLoop, UNCHANGED <<hub, disk, cli>>
  PROVE  DiskInv' /\ LoopInv' /\ WorkType' /\ pc'["loop"] = "down"
<1>1. Stop("loop") /\ fresh' = NoCred /\ seen' = 0 /\ "loop" \in Pollers
  BY DEF StopLoop, Pollers
<1>2. DiskInv' /\ LoopInv' /\ WorkType'
  BY <1>1, StopKept
<1>3. pc'["loop"] = "down"
  BY <1>1 DEF Stop, Goto, AgentInv, LoopInv, LoopType
<1>4. QED
  BY <1>2, <1>3

LEMMA Restarts ==
  ASSUME AgentInv, RestartService \/ KillLoop \/ KillCli
  PROVE  AgentInv'
<1>1. UpdateInv /\ UpdateType /\ "loop" \in Pollers /\ "once" \in Pollers
  BY DEF AgentInv, UpdateInv, Pollers
<1>2. CASE RestartService
  <2>1. /\ restart > 0 /\ restart' \in {0, restart - 1} /\ StopLoop
        /\ UNCHANGED <<hub, disk, cli, installed, serving, installs, missed,
                       kills>>
    BY <1>2 DEF RestartService
  <2>2. DiskInv' /\ LoopInv' /\ WorkType' /\ pc'["loop"] = "down"
    BY <2>1, LoopStops
  <2>3. UpdateType' /\ UpdateReachesLoop'
    BY <1>1, <2>1, <2>2 DEF UpdateType, UpdateReachesLoop
  <2>4. QED
    BY <2>2, <2>3 DEF AgentInv, UpdateInv
<1>3. CASE KillLoop
  <2>1. /\ StopLoop /\ kills < MaxKills /\ kills' = kills + 1
        /\ restart' \in {0, restart}
        /\ UNCHANGED <<hub, disk, cli, installed, serving, installs, missed>>
    BY <1>3 DEF KillLoop
  <2>2. DiskInv' /\ LoopInv' /\ WorkType' /\ pc'["loop"] = "down"
    BY <2>1, LoopStops
  <2>3. kills' \in 0..MaxKills
    BY <1>1, <2>1, Values DEF UpdateType
  <2>4. UpdateType' /\ UpdateReachesLoop'
    BY <1>1, <2>1, <2>2, <2>3 DEF UpdateType, UpdateReachesLoop
  <2>5. QED
    BY <2>2, <2>4 DEF AgentInv, UpdateInv
<1>4. CASE KillCli
  <2>1. /\ Stop("once") /\ kills < MaxKills /\ kills' = kills + 1
        /\ cli' = Idle /\ restart' \in {0, restart}
        /\ missed' = (missed \/ restart' < restart \/ pc["once"] = "schedule")
        /\ UNCHANGED <<hub, disk, loop, installed, serving, installs>>
    BY <1>4 DEF KillCli
  <2>2. DiskInv' /\ LoopInv' /\ WorkType'
    BY <1>1, <2>1, StopKept
  <2>3. kills' \in 0..MaxKills
    BY <1>1, <2>1, Values DEF UpdateType
  <2>4. UpdateType'
    BY <1>1, <2>1, <2>3 DEF UpdateType
  <2>5. pc'["loop"] = pc["loop"]
    BY <2>1, Loops DEF Stop, Goto, AgentInv
  <2>6. UpdateReachesLoop'
    <3>1. restart \in Nat /\ restart' \in Nat
      BY <1>1, <2>4 DEF UpdateType
    <3>2. CASE missed'
      BY <3>2 DEF UpdateReachesLoop
    <3>3. CASE ~missed'
      <4>1. ~missed /\ pc["once"] # "schedule"
        BY <2>1, <3>3
      <4>3. restart' = restart
        <5>1. ~(restart' < restart)
          BY <2>1, <3>3
        <5>2. restart' = 0 \/ restart' = restart
          BY <2>1
        <5>3. QED
          BY <3>1, <5>1, <5>2
      <4>2. \A q \in Pollers : pc[q] = "schedule" => pc'[q] = "schedule"
        BY <2>5, <4>1 DEF Pollers
      <4>4. QED
        BY <1>1, <2>1, <2>5, <4>1, <4>2, <4>3 DEF UpdateInv, UpdateReachesLoop
    <3>4. QED
      BY <3>2, <3>3
  <2>7. QED
    BY <2>2, <2>4, <2>6 DEF AgentInv, UpdateInv
<1>5. QED
  BY <1>2, <1>3, <1>4

-------------------------------------------------------------------------------
(* The theorems *)

LEMMA NextAgent == AgentInv /\ [Next]_vars => AgentInv'
<1> SUFFICES ASSUME AgentInv, [Next]_vars
             PROVE  AgentInv'
  OBVIOUS
<1>1. DiskInv
  BY DEF AgentInv
<1>2. CASE Redeem
  BY <1>1, <1>2, RedeemDisk, FilesKept DEF Redeem
<1>3. CASE SetIPMode
  BY <1>1, <1>3, SetIPModeDisk, FilesKept DEF SetIPMode
<1>4. CASE WriteFile
  BY <1>1, <1>4, WriteFileDisk, FilesKept DEF WriteFile
<1>5. CASE \E polls \in BOOLEAN : EnrollEnds(polls)
  BY <1>5, EnrollEndsStep
<1>6. CASE StartLoop \/ Wake
  BY <1>6, StartLoopStep, WakeStep
<1>7. CASE Load
  BY <1>7, ReadConfStep, ReadTokenStep, ReadPairStep, TakeStampStep,
     LoadFailsStep DEF Load
<1>8. CASE \E p \in Pollers : Poll(p)
  BY <1>8, PollStep
<1>9. CASE RestartService \/ KillLoop \/ KillCli
  BY <1>9, Restarts
<1>10. CASE UNCHANGED vars
  <2>1. UNCHANGED <<hub, disk, cli, work, loop, update, kills>>
    BY <1>10 DEF vars
  <2>2. DiskInv' /\ Grown
    BY <1>1, <2>1, DiskKept
  <2>3. QED
    BY <2>1, <2>2, FilesKept
<1>11. QED
  BY <1>2, <1>3, <1>4, <1>5, <1>6, <1>7, <1>8, <1>9, <1>10 DEF Next

LEMMA AgentAlways == Spec => []AgentInv
<1>1. QED
  BY InitAgent, NextAgent, PTL DEF Spec

\* The files, the command line, the loop and the poll of agent-enroll
\* --poll-once keep the values they are of, whoever is killed where.
THEOREM AgentLoopTypeCorrect == Spec => []TypeOK
<1>1. QED
  BY AgentAlways, Types, PTL

\* A loop that finds nothing to reload, with agent.json not written during its
\* last load, holds every part of the enrollment that the files hold: what
\* agent-enroll writes first the loop reads last.
THEOREM LoopHoldsOneEnrollment == Spec => []LoopHoldsTheEnrollment
<1>1. AgentInv => LoopHoldsTheEnrollment
  <2> SUFFICES ASSUME AgentInv, NEW e \in Enrolls \ {0},
                      Whole(e), Loaded("loop"), seen = stamp, ~Raced
               PROVE  cred["loop"] = [conf |-> e, token |-> e, ca |-> e,
                                      cert |-> e, read |-> stamp]
    BY DEF LoopHoldsTheEnrollment
  <2> DEFINE c == cred["loop"]
  <2>1. c \in Cred /\ Held(c) /\ e \in Nat
    BY Values DEF AgentInv, LoopInv, LoopType, Reading, Pollers
  <2>2. /\ file["conf"] = e /\ file["token"] = e /\ file["ca"] = e
        /\ file["cert"] = e
    BY DEF Whole, Files
  <2>3. c.read = stamp
    BY DEF Raced
  <2>4. /\ c.conf \in Nat /\ c.token \in Nat /\ c.ca \in Nat
        /\ c.cert \in Nat
    BY <2>1, Values DEF Cred
  <2>5. c.conf = e /\ c.token = e /\ c.ca = e /\ c.cert = e
    BY <2>1, <2>2, <2>3, <2>4 DEF Held, Partial
  <2>6. QED
    BY <2>1, <2>3, <2>5 DEF Cred
<1>2. QED
  BY <1>1, AgentAlways, PTL

\* For any set of self_update tasks, whatever versions they name, executed by
\* two pollers and however often, stopped at any point: a loop that runs another
\* version than the one installed has a restart before it, or is known to have
\* missed it.
THEOREM UpdatesReachLoop == Spec => []UpdateReachesLoop
<1>1. AgentInv => UpdateReachesLoop
  BY DEF AgentInv, UpdateInv
<1>2. QED
  BY <1>1, AgentAlways, PTL
===============================================================================
