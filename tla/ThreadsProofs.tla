----------------------------- MODULE ThreadsProofs -----------------------------
(***************************************************************************)
(* Proofs about the threads of the servers and what they share.  IpPool:   *)
(* any range, any configuration and any sequence of operations.            *)
(* DhcpV6Agent: any set of workers and packets and any size of the queue.  *)
(* DhcpV4Main: any number of packets in the thread pool.                   *)
(***************************************************************************)
EXTENDS IpPool, DhcpV6Agent, DhcpV4Main, IpPoolOpsProofs, SequenceTheorems

-----------------------------------------------------------------------------
(***************************************************************************)
(* The address pool: the counters stay within their type, and they count   *)
(* the entries as long as no uncounted transition was taken.  IpInv, the   *)
(* conjunction of the two, is inductive as it stands.                      *)
(***************************************************************************)
IpInv == IpTypeOK /\ CountersMatch

(* ip_pool_init starts from counters that agree with the configured entries. *)
LEMMA IpInvInit == IpInit => IpInv
BY Zenon, ConfiguredCounts DEF IpInit, IpInv, IpTypeOK, CountersMatch, Counts

(* A step that leaves the counters behind says so in exact; every other step is
   one of StepsOf. *)
LEMMA IpInvStep == IpInv /\ [IpNext]_ipVars => IpInv'
<1> SUFFICES ASSUME IpInv, [IpNext]_ipVars
             PROVE  IpInv'
  OBVIOUS
<1>1. pool \in Pools /\ IpTypeOK /\ (exact => Counts(pool))
  BY DEF IpInv, IpTypeOK, CountersMatch, Counts
<1>2. SUFFICES /\ pool' \in Pools
               /\ mutex' \in {"free", "stuck"}
               /\ phase' \in {"init", "open"}
               /\ exact' \in BOOLEAN
               /\ exact' => Counts(pool')
  BY DEF IpInv, IpTypeOK, CountersMatch, Counts
<1>3. ASSUME StepsOf(pool, pool'), exact' \in BOOLEAN, exact' => exact
      PROVE  pool' \in Pools /\ (exact' => Counts(pool'))
  BY <1>1, <1>3, StepsKeep
<1>4. CASE UNCHANGED ipVars
  BY <1>1, <1>4 DEF ipVars, IpTypeOK
<1>5. CASE InitDone
  BY <1>1, <1>5 DEF InitDone, IpTypeOK
<1>6. ASSUME NEW ip \in Addresses, NEW s \in LeaseStates, NEW m \in Macs, InitLease(ip, s, m)
      PROVE  <1>2!1
  <2>1. pool' = InitFromLease(pool, ip, s, m) /\ UNCHANGED <<mutex, phase>>
    BY <1>6 DEF InitLease
  <2>2. exact' \in BOOLEAN /\ (exact' => exact)
    BY Zenon, <1>6 DEF InitLease
  <2>3. pool' \in Pools
    BY Zenon, <1>1, <2>1, InitLeaseSteps
  <2>4. exact' => StepsOf(pool, pool')
    BY Zenon, <1>1, <1>6, <2>1, InitLeaseSteps DEF InitLease
  <2> QED
    BY <1>1, <1>3, <2>1, <2>2, <2>3, <2>4 DEF IpTypeOK
<1>7. ASSUME NEW result, Operation(result), StepsOf(pool, result), UNCHANGED exact
      PROVE  <1>2!1
  BY <1>1, <1>3, <1>7 DEF Operation, IpTypeOK
<1>8. ASSUME NEW ip \in Addresses, NEW m \in Macs, Reserve(ip, m)
      PROVE  <1>2!1
  <2>1. pool' = ip_pool_reserve_ip(pool, ip, m) /\ UNCHANGED <<mutex, phase>>
    BY <1>8 DEF Reserve, Operation
  <2>2. exact' \in BOOLEAN /\ (exact' => exact)
    BY Zenon, <1>8 DEF Reserve
  <2>3. pool' \in Pools
    BY <1>1, <2>1, ReserveSteps
  <2>4. exact' => StepsOf(pool, pool')
    BY Zenon, <1>1, <1>8, <2>1, ReserveSteps DEF Reserve
  <2> QED
    BY <1>1, <1>3, <2>1, <2>2, <2>3, <2>4 DEF IpTypeOK
<1>9. ASSUME NEW ip \in Addresses, Release(ip) \/ MarkConflict(ip)
      PROVE  <1>2!1
  BY <1>1, <1>7, <1>9, ReleaseSteps, MarkConflictSteps DEF Release, MarkConflict
<1>10. ASSUME NEW ip \in Addresses, NEW s \in LeaseStates, NEW m \in Macs,
              UpdateFromLease(ip, s, m) \/ Sync(ip, s, m)
       PROVE  <1>2!1
  BY <1>1, <1>7, <1>10, UpdateSteps DEF UpdateFromLease, Sync
<1>11. ASSUME NEW m \in Macs, AllocateKnown(m)
       PROVE  <1>2!1
  BY <1>7, <1>11 DEF AllocateKnown, StepsOf
<1>12. ASSUME NEW ip \in Addresses, NEW m \in Macs,
              AllocateFresh(m, ip) \/ AllocateFails(m, ip)
       PROVE  <1>2!1
  <2>1. ip \in Nat
    BY AddressesAssumption
  <2>2. CASE AllocateFresh(m, ip)
    BY <1>1, <1>7, <2>1, <2>2, TakeSteps DEF AllocateFresh
  <2>3. CASE AllocateFails(m, ip)
    BY <1>7, <2>3 DEF AllocateFails, StepsOf
  <2> QED
    BY <1>12, <2>2, <2>3
<1>13. ASSUME NEW ip \in Addresses, NEW m \in Macs, AllocatePinged(m, ip)
       PROVE  <1>2!1
  BY <1>1, <1>13 DEF AllocatePinged, IpTypeOK
<1> QED
  BY <1>4, <1>5, <1>6, <1>8, <1>9, <1>10, <1>11, <1>12, <1>13 DEF IpNext

(* The operations of ip_pool.c keep the entries and the two counters of the pool
   within their types, whatever the configuration: no decrement leaves uint32_t. *)
THEOREM PoolTypes == IpSpec => []IpTypeOK
<1>1. IpSpec => []IpInv
  BY IpInvInit, IpInvStep, PTL DEF IpSpec
<1> QED
  BY <1>1, PTL DEF IpInv

(* For every range, every set of clients and reservations and every
   configuration, whatever operations of ip_pool.c run in whatever order: the
   counters stay uint32_t values, and as long as no uncounted transition was
   taken they are the numbers of available and of allocated entries. *)
THEOREM CountersExact == IpSpec => [](IpTypeOK /\ CountersMatch)
<1>1. IpSpec => []IpInv
  BY IpInvInit, IpInvStep, PTL DEF IpSpec
<1> QED
  BY <1>1, PTL DEF IpInv

--------------------------------------------------------------------------------
(* DhcpV6Agent. *)

(* The types of what is not a sequence of packets. *)
Control ==
    /\ running \in BOOLEAN /\ inited \in BOOLEAN /\ cancelled \in BOOLEAN /\ shutdown \in BOOLEAN
    /\ worker \in [Workers -> WorkerPlaces]
    /\ cleaner \in CleanerPlaces
    /\ main \in MainPlaces
    /\ rounds \in 0 .. MaxRounds
    /\ arrived \subseteq Packets
    /\ db_lock \in Workers \union {"cleaner", Nobody}
    /\ g_lock \in Workers \union {"main", "cleaner", Nobody}

(* The queue never grows beyond its slots. *)
Bounded == Len(queue) <= QUEUE_SIZE

(* After the joins the threads have ended, and a thread that has ended does nothing. *)
Joined ==
    /\ main \in {"joincleaner", "stopped", "save", "saving", "done"} =>
           \A w \in Workers : worker[w] = "done"
    /\ main \in {"stopped", "save", "saving", "done"} => cleaner \in {"done", "dead"}

(* The packets that were accepted are those taken and those queued, in that order. *)
Order ==
    /\ queue \in Seq(Packets) /\ taken \in Seq(Packets) /\ accepted \in Seq(Packets)
    /\ accepted = taken \o queue

(* An element goes from the front of one sequence to the end of the other. *)
LEMMA MovesOver ==
    ASSUME NEW S, NEW s \in Seq(S), NEW t \in Seq(S), t # <<>>
    PROVE  /\ Head(t) \in S /\ Tail(t) \in Seq(S) /\ Append(s, Head(t)) \in Seq(S)
           /\ Append(s, Head(t)) \o Tail(t) = s \o t
<1>1. Head(t) \in S /\ Tail(t) \in Seq(S)
  BY HeadTailProperties
<1>2. Append(s, Head(t)) \in Seq(S)
  BY <1>1, AppendProperties
<1>3. Append(s, Head(t)) \o Tail(t) = s \o t
  <2>1. Len(t) \in Nat /\ Len(t) >= 1 /\ Len(Tail(t)) = Len(t) - 1
    BY HeadTailProperties, EmptySeq, LenProperties
  <2>2. Len(Append(s, Head(t))) = Len(s) + 1 /\ Len(s) \in Nat
    BY <1>1, AppendProperties, LenProperties
  <2>3. /\ Append(s, Head(t)) \o Tail(t) \in Seq(S)
        /\ Len(Append(s, Head(t)) \o Tail(t)) = Len(s) + Len(t)
    BY <1>1, <1>2, <2>1, <2>2, ConcatProperties
  <2>4. s \o t \in Seq(S) /\ Len(s \o t) = Len(s) + Len(t)
    BY ConcatProperties
  <2>5. ASSUME NEW i \in 1 .. Len(s) + Len(t)
        PROVE  (Append(s, Head(t)) \o Tail(t))[i] = (s \o t)[i]
    <3>1. CASE i <= Len(s)
      BY <3>1, <1>1, <1>2, <2>1, <2>2, ConcatProperties, AppendProperties
    <3>2. CASE i = Len(s) + 1
      BY <3>2, <1>1, <1>2, <2>1, <2>2, ConcatProperties, AppendProperties, HeadTailProperties
    <3>3. CASE i > Len(s) + 1
      <4>1. i - (Len(s) + 1) \in 1 .. Len(t) - 1 /\ i - Len(s) \in 1 .. Len(t)
        BY <3>3, <2>1, <2>2
      <4>2. (Append(s, Head(t)) \o Tail(t))[i] = Tail(t)[i - (Len(s) + 1)]
        BY <3>3, <1>1, <1>2, <2>1, <2>2, ConcatProperties
      <4>3. Tail(t)[i - (Len(s) + 1)] = t[(i - (Len(s) + 1)) + 1]
        BY <4>1, <2>1, HeadTailProperties
      <4>4. (s \o t)[i] = t[i - Len(s)]
        BY <3>3, <2>1, <2>2, ConcatProperties
      <4>5. (i - (Len(s) + 1)) + 1 = i - Len(s)
        BY <2>2
      <4> QED BY <4>2, <4>3, <4>4, <4>5
    <3> QED BY <3>1, <3>2, <3>3, <2>2
  <2> QED BY <2>3, <2>4, <2>5, SeqEqual
<1> QED BY <1>1, <1>2, <1>3

(* The two sequences grow by the same element. *)
LEMMA GrowsTogether ==
    \A s, t \in Seq(Packets) : \A e \in Packets : Append(s \o t, e) = s \o Append(t, e)
<1> SUFFICES ASSUME NEW s \in Seq(Packets), NEW t \in Seq(Packets), NEW e \in Packets
             PROVE  Append(s \o t, e) = s \o Append(t, e)
  BY Zenon
<1>1. s \o t \in Seq(Packets) /\ <<e>> \in Seq(Packets)
  BY ConcatProperties
<1>2. Append(s \o t, e) = (s \o t) \o <<e>> /\ Append(t, e) = t \o <<e>>
  BY <1>1, AppendIsConcat
<1>3. (s \o t) \o <<e>> = s \o (t \o <<e>>)
  BY <1>1, ConcatAssociative
<1> QED BY <1>2, <1>3

-----------------------------------------------------------------------------
LEMMA ControlInit == AgentInit => Control
<1> SUFFICES ASSUME AgentInit PROVE Control
  OBVIOUS
<1>1. worker \in [Workers -> WorkerPlaces]
  BY DEF AgentInit, WorkerPlaces
<1>2. 0 \in 0 .. MaxRounds
  BY AgentAssumption
<1> QED BY Zenon, <1>1, <1>2 DEF AgentInit, Control, CleanerPlaces, MainPlaces

LEMMA ControlStep == Control /\ [AgentNext]_agentVars => Control'
<1> SUFFICES ASSUME Control, [AgentNext]_agentVars PROVE Control'
  OBVIOUS
<1> USE AgentAssumption DEF Control, WorkerPlaces, CleanerPlaces, MainPlaces, log_msg, Logged
<1>1. CASE MainStep
  <2>1. CASE Begin \/ Hello \/ CreateCleaner \/ Dropped \/ LoopEnds
    <3>1. main' \in MainPlaces /\ cleaner' \in CleanerPlaces
      BY <2>1 DEF Begin, Hello, CreateCleaner, Dropped, LoopEnds
    <3>2. g_lock' \in Workers \union {"main", "cleaner", Nobody}
      BY <2>1 DEF Begin, Hello, CreateCleaner, Dropped, LoopEnds
    <3>3. running' = TRUE \/ running' = running
      BY <2>1 DEF Begin, Hello, CreateCleaner, Dropped, LoopEnds
    <3>4. UNCHANGED <<inited, worker, rounds, cancelled, shutdown, arrived, db_lock>>
      BY <2>1 DEF Begin, Hello, CreateCleaner, Dropped, LoopEnds
    <3> QED BY Zenon, <3>1, <3>2, <3>3, <3>4
  <2>2. ASSUME NEW w \in Workers, CreateWorker(w) PROVE Control'
    BY <2>2 DEF CreateWorker
  <2>3. CASE Close
    BY Zenon, <2>3 DEF Close, Awake
  <2>4. CASE JoinWorkers \/ JoinCleaner \/ Finish
    <3>1. main' \in MainPlaces
      BY <2>4 DEF JoinWorkers, JoinCleaner, Finish
    <3>2. g_lock' \in Workers \union {"main", "cleaner", Nobody}
      BY <2>4 DEF JoinWorkers, JoinCleaner, Finish
    <3>3. cancelled' = TRUE \/ cancelled' = cancelled
      BY <2>4 DEF JoinWorkers, JoinCleaner, Finish
    <3>4. UNCHANGED <<running, inited, worker, cleaner, rounds, shutdown, arrived, db_lock>>
      BY <2>4 DEF JoinWorkers, JoinCleaner, Finish
    <3> QED BY Zenon, <3>1, <3>2, <3>3, <3>4
  <2> QED BY <1>1, <2>1, <2>2, <2>3, <2>4 DEF MainStep
<1>2. CASE StartFails \/ ReceiveFails
  BY <1>2 DEF StartFails, ReceiveFails
<1>3. ASSUME NEW p \in Packets, queue_push(p) PROVE Control'
  BY <1>3 DEF queue_push, Signalled
<1>4. ASSUME NEW w \in Workers, WorkerStep(w) \/ SpuriousWake(w) PROVE Control'
  <2>1. worker' \in [Workers -> WorkerPlaces]
    BY <1>4 DEF WorkerStep, WorkerLooks, WorkerProcesses, SpuriousWake
  <2>2. /\ db_lock' \in Workers \union {"cleaner", Nobody}
        /\ g_lock' \in Workers \union {"main", "cleaner", Nobody}
    BY <1>4 DEF WorkerStep, WorkerLooks, WorkerProcesses, SpuriousWake
  <2>3. UNCHANGED <<running, inited, cancelled, shutdown, cleaner, main, rounds, arrived>>
    BY <1>4 DEF WorkerStep, WorkerLooks, WorkerProcesses, SpuriousWake
  <2> QED BY <2>1, <2>2, <2>3
<1>5. CASE CleanerStep \/ SleepEnds
  BY <1>5 DEF CleanerStep, CleanerRuns, CleanerDies, SleepEnds
<1>6. CASE dhcpv6_agent_stop
  <2>1. running' \in BOOLEAN
    BY ONLY <1>6, Zenon DEF dhcpv6_agent_stop
  <2>2. UNCHANGED <<inited, worker, cleaner, main, rounds, cancelled, shutdown, arrived, db_lock, g_lock>>
    BY <1>6 DEF dhcpv6_agent_stop
  <2> QED BY <2>1, <2>2
<1>7. CASE UNCHANGED agentVars
  BY <1>7 DEF agentVars
<1> QED BY <1>1, <1>2, <1>3, <1>4, <1>5, <1>6, <1>7 DEF AgentNext

LEMMA JoinedInit == AgentInit => Joined
  BY DEF AgentInit, Joined

LEMMA JoinedStep == Control /\ Joined /\ [AgentNext]_agentVars => Joined'
<1> SUFFICES ASSUME Control, Joined, [AgentNext]_agentVars PROVE Joined'
  OBVIOUS
<1> USE DEF Control, Joined
<1>1. CASE MainStep
  <2>1. CASE Begin \/ Hello \/ CreateCleaner \/ Dropped \/ LoopEnds
    BY <2>1 DEF Begin, Hello, CreateCleaner, Dropped, LoopEnds
  <2>2. ASSUME NEW w \in Workers, CreateWorker(w) PROVE Joined'
    BY <2>2 DEF CreateWorker
  <2>3. CASE Close
    BY <2>3 DEF Close
  <2>4. CASE JoinWorkers \/ JoinCleaner \/ Finish
    BY <2>4 DEF JoinWorkers, JoinCleaner, Finish
  <2> QED BY <1>1, <2>1, <2>2, <2>3, <2>4 DEF MainStep
<1>2. CASE StartFails \/ ReceiveFails
  BY <1>2 DEF StartFails, ReceiveFails
<1>3. ASSUME NEW p \in Packets, queue_push(p) PROVE Joined'
  BY <1>3 DEF queue_push
<1>4. ASSUME NEW w \in Workers, WorkerStep(w) \/ SpuriousWake(w) PROVE Joined'
  BY <1>4 DEF WorkerStep, WorkerLooks, WorkerProcesses, SpuriousWake
<1>5. CASE CleanerStep \/ SleepEnds
  BY <1>5 DEF CleanerStep, CleanerRuns, CleanerDies, SleepEnds
<1>6. CASE dhcpv6_agent_stop
  BY <1>6 DEF dhcpv6_agent_stop
<1>7. CASE UNCHANGED agentVars
  BY <1>7 DEF agentVars
<1> QED BY <1>1, <1>2, <1>3, <1>4, <1>5, <1>6, <1>7 DEF AgentNext

LEMMA OrderInit == AgentInit => Order
<1> SUFFICES ASSUME AgentInit PROVE Order
  OBVIOUS
<1>1. queue = <<>> /\ taken = <<>> /\ accepted = <<>>
  BY DEF AgentInit
<1>2. <<>> \in Seq(Packets)
  BY EmptySeq
<1>3. <<>> \o <<>> = <<>>
  BY <1>2, ConcatEmptySeq
<1> QED BY <1>1, <1>2, <1>3 DEF Order

LEMMA OrderStep == Order /\ [AgentNext]_agentVars => Order'
<1> SUFFICES ASSUME Order, [AgentNext]_agentVars PROVE Order'
  OBVIOUS
<1>1. CASE UNCHANGED <<queue, taken, accepted>>
  BY <1>1 DEF Order
<1>2. ASSUME NEW p \in Packets, queue_push(p) PROVE Order'
  <2>1. CASE queue' = Append(queue, p) /\ accepted' = Append(accepted, p) /\ taken' = taken
    <3>1. /\ queue \in Seq(Packets) /\ taken \in Seq(Packets) /\ accepted \in Seq(Packets)
          /\ accepted = taken \o queue
      BY DEF Order
    <3>2. Append(queue, p) \in Seq(Packets) /\ Append(accepted, p) \in Seq(Packets)
      BY <3>1, AppendProperties
    <3>3. Append(taken \o queue, p) = taken \o Append(queue, p)
      <4>1. \A e \in Packets : Append(taken \o queue, e) = taken \o Append(queue, e)
        BY <3>1, GrowsTogether, Zenon
      <4> QED BY <4>1, Zenon
    <3> QED BY <2>1, <3>1, <3>2, <3>3 DEF Order
  <2> QED BY <2>1, <1>1, <1>2 DEF queue_push
<1>3. ASSUME NEW w \in Workers, WorkerLooks(w) PROVE Order'
  <2>1. CASE queue # <<>> /\ taken' = Append(taken, Head(queue)) /\ queue' = Tail(queue) /\ accepted' = accepted
    BY <2>1, MovesOver DEF Order
  <2> QED BY <2>1, <1>1, <1>3 DEF WorkerLooks
<1>4. CASE MainStep \/ StartFails \/ ReceiveFails \/ CleanerStep \/ SleepEnds \/ dhcpv6_agent_stop
  BY Zenon, <1>1, <1>4 DEF MainStep, Begin, Hello, CreateWorker, CreateCleaner, Dropped, LoopEnds, Close,
     JoinWorkers, JoinCleaner, Finish, StartFails, ReceiveFails, CleanerStep, CleanerRuns,
     CleanerDies, SleepEnds, dhcpv6_agent_stop
<1>5. ASSUME NEW w \in Workers, WorkerProcesses(w) \/ SpuriousWake(w) PROVE Order'
  BY <1>1, <1>5 DEF WorkerProcesses, SpuriousWake
<1>6. CASE UNCHANGED agentVars
  BY <1>1, <1>6 DEF agentVars
<1> QED BY <1>2, <1>3, <1>4, <1>5, <1>6 DEF AgentNext, WorkerStep

LEMMA BoundedInit == AgentInit => Bounded
<1> SUFFICES ASSUME AgentInit PROVE Bounded
  OBVIOUS
<1>1. queue = <<>> /\ Len(<<>>) = 0
  BY EmptySeq DEF AgentInit
<1> QED BY <1>1, AgentAssumption DEF Bounded

LEMMA BoundedStep == Order /\ Bounded /\ [AgentNext]_agentVars => Bounded'
<1> SUFFICES ASSUME Order, Bounded, [AgentNext]_agentVars PROVE Bounded'
  OBVIOUS
<1>1. queue \in Seq(Packets) /\ Len(queue) \in Nat /\ QUEUE_SIZE \in Nat
  BY LenProperties, AgentAssumption DEF Order
<1>2. CASE UNCHANGED queue
  BY <1>2 DEF Bounded
<1>3. ASSUME NEW p \in Packets, queue_push(p) PROVE Bounded'
  <2>1. CASE Len(queue) < QUEUE_SIZE /\ queue' = Append(queue, p)
    BY <1>1, <2>1, AppendProperties DEF Bounded
  <2> QED BY <1>2, <1>3, <2>1 DEF queue_push
<1>4. ASSUME NEW w \in Workers, WorkerLooks(w) PROVE Bounded'
  <2>1. CASE queue # <<>> /\ queue' = Tail(queue)
    <3>1. Len(Tail(queue)) = Len(queue) - 1
      BY <1>1, <2>1, HeadTailProperties
    <3> QED BY <1>1, <2>1, <3>1 DEF Bounded
  <2> QED BY <1>2, <1>4, <2>1 DEF WorkerLooks
<1>5. CASE MainStep \/ StartFails \/ ReceiveFails \/ CleanerStep \/ SleepEnds \/ dhcpv6_agent_stop
  BY Zenon, <1>2, <1>5 DEF MainStep, Begin, Hello, CreateWorker, CreateCleaner, Dropped, LoopEnds, Close,
     JoinWorkers, JoinCleaner, Finish, StartFails, ReceiveFails, CleanerStep, CleanerRuns,
     CleanerDies, SleepEnds, dhcpv6_agent_stop
<1>6. ASSUME NEW w \in Workers, WorkerProcesses(w) \/ SpuriousWake(w) PROVE Bounded'
  BY <1>2, <1>6 DEF WorkerProcesses, SpuriousWake
<1>7. CASE UNCHANGED agentVars
  BY <1>2, <1>7 DEF agentVars
<1> QED BY <1>3, <1>4, <1>5, <1>6, <1>7 DEF AgentNext, WorkerStep

(* Every variable keeps its type, and the packet queue never holds more than its
   QUEUE_SIZE slots. *)
THEOREM AgentTypes == AgentSpec => []AgentTypeOK
<1>1. AgentInit => Control /\ Order /\ Bounded
  BY ControlInit, OrderInit, BoundedInit
<1>2. Control /\ Order /\ Bounded /\ [AgentNext]_agentVars => (Control /\ Order /\ Bounded)'
  BY ControlStep, OrderStep, BoundedStep
<1>3. Control /\ Order /\ Bounded => AgentTypeOK
  BY DEF Control, Order, Bounded, AgentTypeOK
<1> QED BY <1>1, <1>2, <1>3, PTL DEF AgentSpec

(* With any number of workers, the packets are processed in the order in which
   queue_push accepted them, none twice and none that was dropped. *)
THEOREM PacketsStayInOrder == AgentSpec => []PacketsInOrder
<1>1. AgentInit => Order
  BY OrderInit
<1>2. Order /\ [AgentNext]_agentVars => Order'
  BY OrderStep
<1>3. Order => PacketsInOrder
  BY DEF Order, PacketsInOrder
<1> QED BY <1>1, <1>2, <1>3, PTL DEF AgentSpec

(* With any number of workers, the last lease_v6_db_save of dhcpv6_agent_start, which
   does not take ctx.db_lock, runs alone. *)
THEOREM LastSaveIsAlone == AgentSpec => []SaveIsAlone
<1>1. AgentInit => Control /\ Joined
  BY ControlInit, JoinedInit
<1>2. Control /\ Joined /\ [AgentNext]_agentVars => (Control /\ Joined)'
  BY ControlStep, JoinedStep
<1>3. Joined => SaveIsAlone
  BY DEF Joined, SaveIsAlone
<1> QED BY <1>1, <1>2, <1>3, PTL DEF AgentSpec

-----------------------------------------------------------------------------
(* What the locks and the queue of DhcpV6Agent guarantee to those who wait. *)

(* Until the receive loop nobody has anything to do but the main thread. *)
Starting ==
    main \in {"begin", "hello", "create", "stuck"} =>
        /\ cleaner = "none" /\ ~cancelled /\ ~shutdown /\ queue = <<>>
        /\ db_lock = Nobody /\ g_lock \in {"main", Nobody}
        /\ \A w \in Workers : worker[w] \in {"none", "idle", "wait"}

(* The cleaner is cancelled after the workers have ended. *)
CancelledLast == cancelled => \A w \in Workers : worker[w] = "done"

(* Who holds a lock is where it is used, or is a cleaner that was cancelled there. *)
Held ==
    /\ \A w \in Workers : db_lock = w => worker[w] = "inside"
    /\ \A w \in Workers : g_lock = w => worker[w] \in {"inside", "after"}
    /\ db_lock = "cleaner" => cleaner \in {"round", "save"} \/ \A w \in Workers : worker[w] = "done"
    /\ g_lock = "cleaner" => cleaner \in {"debug", "round", "dead"}
    /\ g_lock = "main" => main \in {"hello", "drop", "close", "stopped", "saving", "stuck"}

(* Nobody sleeps once the queue is closed. *)
OpenIfWaiting == \A w \in Workers : worker[w] = "wait" => ~shutdown

(* While a worker sleeps, each queued packet has a worker of its own that will look. *)
Looking == {v \in Workers : worker[v] = "idle"}
Woken6 == (\E w \in Workers : worker[w] = "wait") => Len(queue) <= Cardinality(Looking)

Locks == Starting /\ CancelledLast /\ Held

LEMMA LocksInit == AgentInit => Locks
<1> SUFFICES ASSUME AgentInit PROVE Locks
  OBVIOUS
<1>1. Starting /\ CancelledLast
  BY DEF AgentInit, Starting, CancelledLast
<1>2. Held
  BY AgentAssumption DEF AgentInit, Held, Nobody
<1> QED BY <1>1, <1>2 DEF Locks

LEMMA LocksStep == Control /\ Locks /\ [AgentNext]_agentVars => Locks'
<1> SUFFICES ASSUME Control, Locks, [AgentNext]_agentVars PROVE Locks'
  OBVIOUS
<1> USE AgentAssumption DEF Control, Locks, Starting, CancelledLast, Held, log_msg, Logged, Nobody
<1>1. CASE MainStep
  <2>1. CASE Begin \/ CreateCleaner \/ LoopEnds
    BY <2>1 DEF Begin, CreateCleaner, LoopEnds
  <2>2. CASE Hello \/ Dropped
    BY <2>2 DEF Hello, Dropped
  <2>3. ASSUME NEW w \in Workers, CreateWorker(w) PROVE Locks'
    BY <2>3 DEF CreateWorker
  <2>4. CASE Close
    BY <2>4 DEF Close, Awake
  <2>5. CASE JoinWorkers \/ JoinCleaner
    BY <2>5 DEF JoinWorkers, JoinCleaner
  <2>6. CASE Finish
    BY <2>6 DEF Finish
  <2> QED BY <1>1, <2>1, <2>2, <2>3, <2>4, <2>5, <2>6, Zenon DEF MainStep
<1>2. CASE StartFails
  BY <1>2 DEF StartFails
<1>3. CASE ReceiveFails
  BY <1>3 DEF ReceiveFails
<1>4. ASSUME NEW p \in Packets, queue_push(p) PROVE Locks'
  <2>1. main = "poll" /\ main' \in {"poll", "drop"}
    BY <1>4 DEF queue_push
  <2>2. UNCHANGED <<cleaner, cancelled, db_lock, g_lock>>
    BY <1>4 DEF queue_push
  <2>3. worker' = worker \/ \E w \in Workers : worker[w] = "wait" /\ worker' = [worker EXCEPT ![w] = "idle"]
    BY <1>4 DEF queue_push, Signalled
  <2> QED BY <2>1, <2>2, <2>3
<1>5. ASSUME NEW w \in Workers, WorkerLooks(w) \/ SpuriousWake(w) PROVE Locks'
  <2>1. UNCHANGED <<main, cleaner, cancelled, db_lock, g_lock>>
    BY <1>5 DEF WorkerLooks, SpuriousWake
  <2>2. \E s \in {"idle", "wait", "lock", "done"} :
            worker[w] \in {"idle", "wait"} /\ worker' = [worker EXCEPT ![w] = s]
    BY <1>5 DEF WorkerLooks, SpuriousWake
  <2>3. CASE main \in {"begin", "hello", "create", "stuck"}
    <3>1. queue' = queue /\ worker'[w] \in {"idle", "wait", "done"}
      BY <1>5, <2>3 DEF WorkerLooks, SpuriousWake
    <3>2. ~shutdown
      BY <2>3
    <3>3. worker'[w] \in {"idle", "wait"}
      BY <1>5, <2>3, <3>2 DEF WorkerLooks, SpuriousWake
    <3>4. \A v \in Workers : v # w => worker'[v] = worker[v]
      BY <2>2
    <3>5. /\ cleaner = "none" /\ ~cancelled /\ ~shutdown /\ queue = <<>>
          /\ db_lock = Nobody /\ g_lock \in {"main", Nobody}
          /\ \A v \in Workers : worker[v] \in {"none", "idle", "wait"}
      BY <2>3
    <3>6. shutdown' = shutdown
      BY <1>5 DEF WorkerLooks, SpuriousWake
    <3>7. \A v \in Workers : worker'[v] \in {"none", "idle", "wait"}
      BY <3>3, <3>4, <3>5
    <3>8. Starting' /\ CancelledLast'
      BY <2>1, <3>1, <3>5, <3>6, <3>7
    <3>9. Held'
      BY <2>1, <3>5
    <3> QED BY <3>8, <3>9
  <2>4. CASE main \notin {"begin", "hello", "create", "stuck"}
    BY <2>1, <2>2, <2>4
  <2> QED BY <2>3, <2>4
<1>6. ASSUME NEW w \in Workers, WorkerProcesses(w) PROVE Locks'
  BY <1>6 DEF WorkerProcesses
<1>7. CASE CleanerRuns
  BY <1>7 DEF CleanerRuns
<1>8. CASE CleanerDies \/ SleepEnds
  BY <1>8 DEF CleanerDies, SleepEnds
<1>9. CASE dhcpv6_agent_stop \/ UNCHANGED agentVars
  BY <1>9 DEF dhcpv6_agent_stop, agentVars
<1> QED BY <1>1, <1>2, <1>3, <1>4, <1>5, <1>6, <1>7, <1>8, <1>9, Zenon DEF AgentNext, WorkerStep, CleanerStep

(* The number of workers that will look, as one of them goes or another comes. *)
LEMMA LookingCounts ==
    ASSUME Control
    PROVE  /\ IsFiniteSet(Looking) /\ Cardinality(Looking) \in Nat
           /\ \A w \in Looking : Cardinality(Looking \ {w}) = Cardinality(Looking) - 1
           /\ \A w \in Workers \ Looking : Cardinality(Looking \union {w}) = Cardinality(Looking) + 1
<1>1. IsFiniteSet(Looking)
  <2>1. Looking \subseteq Workers
    BY DEF Looking
  <2> QED BY <2>1, AgentAssumption, FS_Subset
<1>2. Cardinality(Looking) \in Nat
  BY <1>1, FS_CardinalityType
<1>3. ASSUME NEW w \in Looking PROVE Cardinality(Looking \ {w}) = Cardinality(Looking) - 1
  BY <1>1, FS_RemoveElement
<1>4. ASSUME NEW w \in Workers \ Looking PROVE Cardinality(Looking \union {w}) = Cardinality(Looking) + 1
  BY <1>1, FS_AddElement
<1> QED BY <1>1, <1>2, <1>3, <1>4

LEMMA WakesInit == AgentInit => OpenIfWaiting /\ Woken6
  BY DEF AgentInit, OpenIfWaiting, Woken6

LEMMA OpenStep == Control /\ OpenIfWaiting /\ [AgentNext]_agentVars => OpenIfWaiting'
<1> SUFFICES ASSUME Control, OpenIfWaiting, [AgentNext]_agentVars PROVE OpenIfWaiting'
  OBVIOUS
<1> USE DEF Control, OpenIfWaiting
<1>1. CASE UNCHANGED <<worker, shutdown>>
  BY <1>1
<1>2. ASSUME NEW w \in Workers, CreateWorker(w) \/ SpuriousWake(w) PROVE OpenIfWaiting'
  BY <1>2 DEF CreateWorker, SpuriousWake
<1>3. CASE Close
  BY <1>3 DEF Close, Awake
<1>4. CASE StartFails
  BY <1>4 DEF StartFails
<1>5. ASSUME NEW p \in Packets, queue_push(p) PROVE OpenIfWaiting'
  BY <1>5 DEF queue_push, Signalled
<1>6. ASSUME NEW w \in Workers, WorkerStep(w) PROVE OpenIfWaiting'
  BY <1>6 DEF WorkerStep, WorkerLooks, WorkerProcesses
<1>7. CASE Begin \/ Hello \/ CreateCleaner \/ Dropped \/ LoopEnds \/ JoinWorkers \/ JoinCleaner \/ Finish
  BY <1>1, <1>7, Zenon DEF Begin, Hello, CreateCleaner, Dropped, LoopEnds, JoinWorkers, JoinCleaner, Finish
<1>8. CASE ReceiveFails \/ CleanerStep \/ SleepEnds \/ dhcpv6_agent_stop \/ UNCHANGED agentVars
  BY <1>1, <1>8, Zenon DEF ReceiveFails, CleanerStep, CleanerRuns, CleanerDies, SleepEnds, dhcpv6_agent_stop, agentVars
<1> QED BY <1>2, <1>3, <1>4, <1>5, <1>6, <1>7, <1>8 DEF AgentNext, MainStep

LEMMA WokenStep ==
    Control /\ Order /\ OpenIfWaiting /\ Woken6 /\ [AgentNext]_agentVars => Woken6'
<1> SUFFICES ASSUME Control, Order, OpenIfWaiting, Woken6, [AgentNext]_agentVars PROVE Woken6'
  OBVIOUS
<1> DEFINE N == Cardinality(Looking)
<1>1. worker \in [Workers -> WorkerPlaces]
  BY DEF Control
<1>2. N \in Nat
  BY LookingCounts
<1>3. Len(queue) \in Nat
  BY LenProperties DEF Order
<1>4. CASE UNCHANGED <<worker, queue>>
  BY <1>4 DEF Woken6, Looking
<1>5. ASSUME NEW w \in Workers, worker[w] # "idle", worker' = [worker EXCEPT ![w] = "idle"], queue' = queue
      PROVE  Woken6'
  <2>1. Looking' = Looking \union {w}
    BY <1>1, <1>5 DEF Looking
  <2>2. w \in Workers \ Looking
    BY <1>5 DEF Looking
  <2>3. Cardinality(Looking') = N + 1
    BY <2>1, <2>2, LookingCounts
  <2>4. (\E v \in Workers : worker'[v] = "wait") => \E v \in Workers : worker[v] = "wait"
    BY <1>1, <1>5
  <2> QED BY <1>2, <1>3, <1>5, <2>3, <2>4 DEF Woken6
<1>6. ASSUME NEW p \in Packets, queue_push(p) PROVE Woken6'
  <2>1. CASE queue' = Append(queue, p) /\ Signalled
    <3>1. CASE \E w \in Workers : worker[w] = "wait"
      <4>1. PICK w \in Workers : worker[w] = "wait" /\ worker' = [worker EXCEPT ![w] = "idle"]
        BY <2>1, <3>1 DEF Signalled
      <4>2. Looking' = Looking \union {w}
        BY <1>1, <4>1 DEF Looking
      <4>3. w \in Workers \ Looking
        BY <4>1 DEF Looking
      <4>4. Cardinality(Looking') = N + 1
        BY <4>2, <4>3, LookingCounts
      <4>5. Len(queue') = Len(queue) + 1
        BY <2>1, AppendProperties DEF Order
      <4>6. Len(queue) <= N
        BY <3>1 DEF Woken6
      <4> QED BY <1>2, <1>3, <4>4, <4>5, <4>6 DEF Woken6
    <3>2. CASE ~\E w \in Workers : worker[w] = "wait"
      BY <2>1, <3>2 DEF Signalled, Woken6
    <3> QED BY <3>1, <3>2
  <2> QED BY <1>4, <1>6, <2>1 DEF queue_push
<1>7. ASSUME NEW w \in Workers, WorkerLooks(w) PROVE Woken6'
  <2>1. worker[w] = "idle"
    BY <1>7 DEF WorkerLooks
  <2>2. CASE shutdown
    <3>1. worker' = [worker EXCEPT ![w] = "done"]
      BY <1>7, <2>2 DEF WorkerLooks
    <3> QED BY <1>1, <2>2, <3>1 DEF OpenIfWaiting, Woken6
  <2>3. CASE ~shutdown /\ queue = <<>>
    <3>1. queue' = queue
      BY <1>7, <2>3 DEF WorkerLooks
    <3>2. Len(queue') = 0
      BY <2>3, <3>1, EmptySeq
    <3>3. Control'
      BY ControlStep
    <3>4. Cardinality(Looking') \in Nat
      <4>1. Looking' \subseteq Workers
        BY DEF Looking
      <4>2. IsFiniteSet(Looking')
        BY <4>1, AgentAssumption, FS_Subset
      <4> QED BY <4>2, FS_CardinalityType
    <3> QED BY <3>2, <3>4 DEF Woken6
  <2>4. CASE ~shutdown /\ queue # <<>>
    <3>1. worker' = [worker EXCEPT ![w] = "lock"] /\ queue' = Tail(queue)
      BY <1>7, <2>4 DEF WorkerLooks
    <3>2. Looking' = Looking \ {w} /\ w \in Looking
      BY <1>1, <2>1, <3>1 DEF Looking
    <3>3. Cardinality(Looking') = N - 1
      BY <3>2, LookingCounts
    <3>4. Len(queue') = Len(queue) - 1
      BY <2>4, <3>1, HeadTailProperties DEF Order
    <3>5. (\E v \in Workers : worker'[v] = "wait") => \E v \in Workers : worker[v] = "wait"
      BY <1>1, <3>1
    <3> QED BY <1>2, <1>3, <3>3, <3>4, <3>5 DEF Woken6
  <2> QED BY <2>2, <2>3, <2>4
<1>8. ASSUME NEW w \in Workers, CreateWorker(w) \/ SpuriousWake(w) PROVE Woken6'
  BY <1>5, <1>8 DEF CreateWorker, SpuriousWake
<1>9. ASSUME NEW w \in Workers, WorkerProcesses(w) PROVE Woken6'
  <2>1. queue' = queue
    BY <1>9 DEF WorkerProcesses
  <2>2. \/ worker' = worker
        \/ worker[w] = "after" /\ worker' = [worker EXCEPT ![w] = "idle"]
        \/ worker[w] \in {"lock", "inside"} /\ \E s \in {"inside", "after"} : worker' = [worker EXCEPT ![w] = s]
    BY <1>9 DEF WorkerProcesses
  <2>3. CASE worker[w] \in {"lock", "inside"} /\ \E s \in {"inside", "after"} : worker' = [worker EXCEPT ![w] = s]
    <3>1. Looking' = Looking
      BY <1>1, <2>3 DEF Looking
    <3>2. (\E v \in Workers : worker'[v] = "wait") => \E v \in Workers : worker[v] = "wait"
      BY <1>1, <2>3
    <3> QED BY <2>1, <3>1, <3>2 DEF Woken6
  <2> QED BY <1>4, <1>5, <2>1, <2>2, <2>3
<1>10. CASE Close
  <2>1. CASE worker' = Awake
    BY <1>1, <2>1 DEF Awake, Woken6
  <2> QED BY <1>4, <1>10, <2>1 DEF Close
<1>11. CASE StartFails
  BY <1>11 DEF StartFails, Woken6
<1>12. CASE Begin \/ Hello \/ CreateCleaner \/ Dropped \/ LoopEnds \/ JoinWorkers \/ JoinCleaner \/ Finish
  BY <1>4, <1>12, Zenon DEF Begin, Hello, CreateCleaner, Dropped, LoopEnds, JoinWorkers, JoinCleaner, Finish
<1>13. CASE ReceiveFails \/ CleanerStep \/ SleepEnds \/ dhcpv6_agent_stop \/ UNCHANGED agentVars
  BY <1>4, <1>13, Zenon DEF ReceiveFails, CleanerStep, CleanerRuns, CleanerDies, SleepEnds, dhcpv6_agent_stop, agentVars
<1> QED BY <1>6, <1>7, <1>8, <1>9, <1>10, <1>11, <1>12, <1>13 DEF AgentNext, MainStep, WorkerStep

(* With any number of workers and any size of the queue, nobody waits in vain: who holds
   g_lock waits for nothing, who holds ctx.db_lock at most for g_lock, and while a worker
   sleeps in queue_pop every queued packet has a worker that was woken for it.  No
   wakeup is lost and no cycle of waits exists. *)
THEOREM NobodyWaitsInVain == AgentSpec => []WaitsAreServed
<1> DEFINE Inv == Control /\ Order /\ Locks /\ OpenIfWaiting /\ Woken6
<1>1. AgentInit => Inv
  BY ControlInit, OrderInit, LocksInit, WakesInit
<1>2. Inv /\ [AgentNext]_agentVars => Inv'
  BY ControlStep, OrderStep, LocksStep, OpenStep, WokenStep
<1>3. Inv => WaitsAreServed
  BY DEF Locks, Held, OpenIfWaiting, Woken6, Looking, WaitsAreServed, LoggerStuck
<1> HIDE DEF Inv
<1> QED BY <1>1, <1>2, <1>3, PTL DEF AgentSpec

--------------------------------------------------------------------------------
(* DhcpV4Main. *)

(* The steps of main after the thread pool is gone, after the synchronisation thread
   is gone, after the pools are freed, and after the timer is gone. *)
AfterPool == {"stopsync", "joinsync", "freepools", "stoptimer", "jointimer", "stopio", "save", "done"}
AfterSync == {"freepools", "stoptimer", "jointimer", "stopio", "save", "done"}
AfterPools == {"stoptimer", "jointimer", "stopio", "save", "done"}
AfterTimer == {"stopio", "save", "done"}

(* The type invariant in two parts. *)
Flags == g_running \in BOOLEAN /\ sync_running \in BOOLEAN /\ timer_running \in BOOLEAN

Places ==
    /\ step \in Steps
    /\ task \in [Tasks -> TaskStates]
    /\ sync \in SyncPlaces /\ timer \in TimerPlaces
    /\ pool_mutex \in Tasks \union {"sync", Free4}
    /\ db_mutex \in {"sync", "timer", Free4}
    /\ freed \subseteq {"sync", "pools", "timer", "db"}

(* What is gone stays gone: no task is queued once the receive loop is left, and the
   two threads do not move after they have ended. *)
Quiet ==
    /\ step \in AfterPool => \A t \in Tasks : task[t] = "none"
    /\ step \in AfterSync => sync \in {"none", "done"}
    /\ step \in AfterTimer => timer = "done"

(* Until ip_pool_sync_stop the flag says whether there is a synchronisation thread, so
   that finding it FALSE, ip_pool_sync_stop has nobody to join. *)
FlagIsThread ==
    /\ step \notin AfterSync \union {"joinsync", "failed"} => (~sync_running => sync = "none")
    /\ step = "startsync" => sync = "none"

(* What has been freed was freed by a step that is over. *)
FreedInOrder ==
    /\ "sync" \in freed => step \in AfterSync /\ sync = "done"
    /\ "pools" \in freed => step \in AfterPools
    /\ "timer" \in freed => step \in AfterTimer

MainInv == MainTypeOK /\ Quiet /\ FlagIsThread /\ FreedInOrder

-----------------------------------------------------------------------------
LEMMA MainInitInv == MainInit => MainInv
<1> SUFFICES ASSUME MainInit PROVE MainInv
  OBVIOUS
<1>1. MainTypeOK
  BY Zenon DEF MainInit, MainTypeOK, Steps, TaskStates, SyncPlaces, TimerPlaces
<1>2. Quiet /\ FlagIsThread /\ FreedInOrder
  BY DEF MainInit, Quiet, FlagIsThread, FreedInOrder, AfterPool, AfterSync, AfterPools, AfterTimer
<1> QED BY <1>1, <1>2 DEF MainInv

LEMMA FlagsStep == Flags /\ [MainNext]_mainVars => Flags'
<1> SUFFICES ASSUME Flags, [MainNext]_mainVars PROVE Flags'
  OBVIOUS
<1>1. CASE UNCHANGED <<g_running, sync_running, timer_running>>
  BY <1>1 DEF Flags
<1>2. CASE ip_pool_sync_start
  <2>1. sync_running' = TRUE \/ sync_running' = sync_running
    BY <1>2 DEF ip_pool_sync_start
  <2>2. UNCHANGED <<g_running, timer_running>>
    BY <1>2 DEF ip_pool_sync_start
  <2> QED BY Zenon, <2>1, <2>2 DEF Flags
<1>3. CASE lease_timer_start \/ IoFails \/ lease_timer_stop
  <2>1. timer_running' = TRUE \/ timer_running' = FALSE \/ timer_running' = timer_running
    BY <1>3 DEF lease_timer_start, IoFails, lease_timer_stop
  <2>2. UNCHANGED <<g_running, sync_running>>
    BY <1>3 DEF lease_timer_start, IoFails, lease_timer_stop
  <2> QED BY Zenon, <2>1, <2>2 DEF Flags
<1>4. CASE ip_pool_sync_stop
  <2>1. sync_running' = FALSE \/ sync_running' = sync_running
    BY <1>4 DEF ip_pool_sync_stop
  <2>2. UNCHANGED <<g_running, timer_running>>
    BY <1>4 DEF ip_pool_sync_stop
  <2> QED BY Zenon, <2>1, <2>2 DEF Flags
<1>5. CASE handle_signal
  <2>1. g_running' = FALSE /\ UNCHANGED <<sync_running, timer_running>>
    BY <1>5 DEF handle_signal
  <2> QED BY Zenon, <2>1 DEF Flags
<1>6. CASE StartIoAndPool \/ Undone \/ MainFails \/ Receive \/ ReceiveFails4 \/ DestroyPool \/ FreePools \/ SaveAndFree
  BY <1>1, <1>6 DEF StartIoAndPool, Undone, MainFails, Exit, Receive, ReceiveFails4, DestroyPool, FreePools, SaveAndFree
<1>7. CASE SyncThread \/ TimerThread
  BY <1>1, <1>7 DEF SyncThread, SyncWait, SyncRound, TimerThread, TimerWait, TimerRound
<1>8. ASSUME NEW t \in Tasks, packet_processor(t) PROVE Flags'
  BY <1>1, <1>8 DEF packet_processor
<1>9. CASE UNCHANGED mainVars
  BY <1>1, <1>9 DEF mainVars
<1> QED BY <1>2, <1>3, <1>4, <1>5, <1>6, <1>7, <1>8, <1>9 DEF MainNext, MainThread

LEMMA PlacesStep == Places /\ [MainNext]_mainVars => Places'
<1> SUFFICES ASSUME Places, [MainNext]_mainVars PROVE Places'
  OBVIOUS
<1> USE DEF Places, Steps, TaskStates, SyncPlaces, TimerPlaces
<1>1. CASE ip_pool_sync_start \/ lease_timer_start \/ StartIoAndPool
  <2>1. CASE ip_pool_sync_start
    BY <2>1 DEF ip_pool_sync_start
  <2>2. CASE lease_timer_start
    BY <2>2 DEF lease_timer_start
  <2>3. CASE StartIoAndPool
    <3>1. step' \in Steps /\ UNCHANGED <<task, sync, timer, pool_mutex, db_mutex, freed>>
      BY <2>3 DEF StartIoAndPool
    <3> QED BY <3>1
  <2> QED BY <1>1, <2>1, <2>2, <2>3
<1>2. CASE Undone \/ MainFails \/ IoFails
  BY Zenon, <1>2 DEF Undone, MainFails, IoFails, Exit, Woken
<1>3. CASE Receive
  BY <1>3 DEF Receive
<1>4. CASE ReceiveFails4 \/ DestroyPool \/ handle_signal
  <2>1. step' \in Steps
    BY <1>4 DEF ReceiveFails4, DestroyPool, handle_signal
  <2>2. UNCHANGED <<task, sync, timer, pool_mutex, db_mutex, freed>>
    BY <1>4 DEF ReceiveFails4, DestroyPool, handle_signal
  <2> QED BY <2>1, <2>2
<1>5. CASE FreePools \/ SaveAndFree
  BY Zenon, <1>5 DEF FreePools, SaveAndFree
<1>6. CASE ip_pool_sync_stop
  <2>1. step' \in Steps /\ freed' \subseteq {"sync", "pools", "timer", "db"}
    BY Zenon, <1>6 DEF ip_pool_sync_stop
  <2>2. sync' \in SyncPlaces
    BY <1>6 DEF ip_pool_sync_stop, Woken
  <2>3. UNCHANGED <<task, timer, pool_mutex, db_mutex>>
    BY <1>6 DEF ip_pool_sync_stop
  <2> QED BY <2>1, <2>2, <2>3
<1>7. CASE lease_timer_stop
  <2>1. step' \in Steps /\ freed' \subseteq {"sync", "pools", "timer", "db"}
    BY Zenon, <1>7 DEF lease_timer_stop
  <2>2. timer' \in TimerPlaces
    BY <1>7 DEF lease_timer_stop, Woken
  <2>3. UNCHANGED <<task, sync, pool_mutex, db_mutex>>
    BY <1>7 DEF lease_timer_stop
  <2> QED BY <2>1, <2>2, <2>3
<1>8. CASE SyncThread
  <2>1. sync' \in SyncPlaces
    BY <1>8 DEF SyncThread, SyncWait, SyncRound
  <2>2. pool_mutex' \in Tasks \union {"sync", Free4} /\ db_mutex' \in {"sync", "timer", Free4}
    BY <1>8 DEF SyncThread, SyncWait, SyncRound
  <2>3. UNCHANGED <<step, task, timer, freed>>
    BY <1>8 DEF SyncThread, SyncWait, SyncRound
  <2> QED BY <2>1, <2>2, <2>3
<1>9. CASE TimerThread
  <2>1. timer' \in TimerPlaces
    BY <1>9 DEF TimerThread, TimerWait, TimerRound
  <2>2. db_mutex' \in {"sync", "timer", Free4}
    BY <1>9 DEF TimerThread, TimerWait, TimerRound
  <2>3. UNCHANGED <<step, task, sync, pool_mutex, freed>>
    BY <1>9 DEF TimerThread, TimerWait, TimerRound
  <2> QED BY <2>1, <2>2, <2>3
<1>10. ASSUME NEW t \in Tasks, packet_processor(t) PROVE Places'
  BY <1>10 DEF packet_processor
<1>11. CASE UNCHANGED mainVars
  BY <1>11 DEF mainVars
<1> QED BY Zenon, <1>1, <1>2, <1>3, <1>4, <1>5, <1>6, <1>7, <1>8, <1>9, <1>10, <1>11 DEF MainNext, MainThread

LEMMA MainTypeStep == MainTypeOK /\ [MainNext]_mainVars => MainTypeOK'
<1> SUFFICES ASSUME MainTypeOK, [MainNext]_mainVars PROVE MainTypeOK'
  OBVIOUS
<1>1. Flags /\ Places
  BY DEF MainTypeOK, Flags, Places
<1>2. Flags' /\ Places'
  BY <1>1, FlagsStep, PlacesStep
<1> QED BY <1>2 DEF MainTypeOK, Flags, Places

LEMMA MainInvStep == MainInv /\ [MainNext]_mainVars => MainInv'
<1> SUFFICES ASSUME MainInv, [MainNext]_mainVars PROVE MainInv'
  OBVIOUS
<1>1. MainTypeOK'
  BY MainTypeStep DEF MainInv
<1>2. Quiet' /\ FlagIsThread' /\ FreedInOrder'
  <2> USE DEF MainInv, MainTypeOK, Quiet, FlagIsThread, FreedInOrder, AfterPool, AfterSync, AfterPools, AfterTimer
  <2>1. CASE ip_pool_sync_start \/ lease_timer_start \/ StartIoAndPool
    BY <2>1 DEF ip_pool_sync_start, lease_timer_start, StartIoAndPool
  <2>2. CASE Undone \/ MainFails \/ IoFails
    BY <2>2 DEF Undone, MainFails, IoFails, Exit
  <2>3. CASE Receive
    BY <2>3 DEF Receive
  <2>4. CASE ReceiveFails4 \/ DestroyPool \/ FreePools \/ SaveAndFree
    BY <2>4 DEF ReceiveFails4, DestroyPool, FreePools, SaveAndFree
  <2>5. CASE handle_signal
    BY <2>5 DEF handle_signal
  <2>6. CASE ip_pool_sync_stop
    BY <2>6 DEF ip_pool_sync_stop, Woken
  <2>7. CASE lease_timer_stop
    BY <2>7 DEF lease_timer_stop, Woken
  <2>8. CASE SyncThread
    BY <2>8 DEF SyncThread, SyncWait, SyncRound
  <2>9. CASE TimerThread
    BY <2>9 DEF TimerThread, TimerWait, TimerRound
  <2>10. ASSUME NEW t \in Tasks, packet_processor(t)
         PROVE  Quiet' /\ FlagIsThread' /\ FreedInOrder'
    BY <2>10 DEF packet_processor
  <2>11. CASE UNCHANGED mainVars
    BY <2>11 DEF mainVars
  <2> QED BY Zenon, <2>1, <2>2, <2>3, <2>4, <2>5, <2>6, <2>7, <2>8, <2>9, <2>10, <2>11 DEF MainNext, MainThread
<1> QED BY <1>1, <1>2 DEF MainInv

(* However many packets the thread pool holds, and whenever the signal or an error
   comes, main frees the pools, the timer, the synchronisation and the leases only when
   no thread can use them any more. *)
THEOREM NothingFreedInUse == MainSpec => []FreedIsUnused
<1>1. MainInit => MainInv
  BY MainInitInv
<1>2. MainInv /\ [MainNext]_mainVars => MainInv'
  BY MainInvStep
<1>3. MainInv => FreedIsUnused
  BY DEF MainInv, Quiet, FreedInOrder, FreedIsUnused, AfterPool, AfterSync, AfterPools, AfterTimer
<1> QED BY <1>1, <1>2, <1>3, PTL DEF MainSpec

(* Every variable keeps its type; in particular each mutex is held by one of the
   threads that lock it, or free. *)
THEOREM MainTypes == MainSpec => []MainTypeOK
<1>1. MainInit => MainTypeOK
  BY MainInitInv DEF MainInv
<1>2. MainTypeOK /\ [MainNext]_mainVars => MainTypeOK'
  BY MainTypeStep
<1> QED BY <1>1, <1>2, PTL DEF MainSpec

(* A mutex is held exactly in the section of its holder. *)
Sections ==
    /\ \A t \in Tasks : pool_mutex = t <=> task[t] = "locked"
    /\ pool_mutex = "sync" <=> sync \in {"db", "sync"}
    /\ db_mutex = "sync" <=> sync = "sync"
    /\ db_mutex = "timer" <=> timer = "expire"

(* The database is freed last. *)
FreedLast == "db" \in freed => step = "done"

(* The timer thread is created by lease_timer_start. *)
NoTimerYet == step \in {"startsync", "starttimer"} => timer = "none"

LEMMA NoTimerStep == NoTimerYet /\ [MainNext]_mainVars => NoTimerYet'
<1> SUFFICES ASSUME NoTimerYet, [MainNext]_mainVars PROVE NoTimerYet'
  OBVIOUS
<1> USE DEF NoTimerYet
<1>1. CASE ip_pool_sync_start \/ lease_timer_start \/ StartIoAndPool \/ Undone \/ MainFails \/ IoFails
  BY <1>1 DEF ip_pool_sync_start, lease_timer_start, StartIoAndPool, Undone, MainFails, IoFails, Exit
<1>2. CASE Receive \/ ReceiveFails4 \/ DestroyPool \/ handle_signal
  BY <1>2 DEF Receive, ReceiveFails4, DestroyPool, handle_signal
<1>3. CASE ip_pool_sync_stop \/ FreePools \/ lease_timer_stop \/ SaveAndFree
  BY <1>3 DEF ip_pool_sync_stop, FreePools, lease_timer_stop, SaveAndFree
<1>4. CASE SyncThread \/ TimerThread \/ UNCHANGED mainVars
  BY <1>4 DEF SyncThread, SyncWait, SyncRound, TimerThread, TimerWait, TimerRound, mainVars
<1>5. ASSUME NEW t \in Tasks, packet_processor(t) PROVE NoTimerYet'
  BY <1>5 DEF packet_processor
<1> QED BY <1>1, <1>2, <1>3, <1>4, <1>5 DEF MainNext, MainThread

LEMMA SectionsStep ==
    MainInv /\ NoTimerYet /\ FreedLast /\ Sections /\ [MainNext]_mainVars => FreedLast' /\ Sections'
<1> SUFFICES ASSUME MainInv, NoTimerYet, FreedLast, Sections, [MainNext]_mainVars
             PROVE  FreedLast' /\ Sections'
  OBVIOUS
<1>1. FreedLast'
  <2>1. CASE UNCHANGED freed /\ step # "done"
    BY <2>1 DEF FreedLast
  <2>2. CASE UNCHANGED <<freed, step>>
    BY <2>2 DEF FreedLast
  <2>3. CASE ip_pool_sync_start \/ lease_timer_start \/ StartIoAndPool \/ Undone \/ MainFails \/ IoFails
    BY <2>1, <2>3 DEF ip_pool_sync_start, lease_timer_start, StartIoAndPool, Undone, MainFails, IoFails, Exit
  <2>4. CASE Receive \/ ReceiveFails4 \/ DestroyPool
    BY <2>1, <2>4 DEF Receive, ReceiveFails4, DestroyPool
  <2>5. CASE ip_pool_sync_stop \/ FreePools \/ lease_timer_stop \/ SaveAndFree
    BY <2>5 DEF FreedLast, ip_pool_sync_stop, FreePools, lease_timer_stop, SaveAndFree
  <2>6. CASE handle_signal \/ SyncThread \/ TimerThread \/ UNCHANGED mainVars
    BY <2>2, <2>6 DEF handle_signal, SyncThread, SyncWait, SyncRound, TimerThread, TimerWait, TimerRound, mainVars
  <2>7. ASSUME NEW t \in Tasks, packet_processor(t) PROVE FreedLast'
    BY <2>2, <2>7 DEF packet_processor
  <2> QED BY <2>3, <2>4, <2>5, <2>6, <2>7 DEF MainNext, MainThread
<1>2. Sections'
  <2> USE TasksAssumption DEF MainInv, MainTypeOK, Sections, Free4
  <2>1. CASE UNCHANGED <<task, sync, timer, pool_mutex, db_mutex>>
    BY <2>1
  <2>2. CASE ip_pool_sync_start
    BY <2>2 DEF ip_pool_sync_start, FlagIsThread
  <2>3. CASE lease_timer_start
    BY <2>3 DEF lease_timer_start, NoTimerYet
  <2>4. CASE Undone \/ MainFails
    BY <2>4 DEF Undone, MainFails, Exit
  <2>5. CASE IoFails \/ lease_timer_stop
    BY <2>5 DEF IoFails, lease_timer_stop, Woken
  <2>6. CASE Receive
    BY <2>6 DEF Receive
  <2>7. CASE ip_pool_sync_stop
    BY <2>7 DEF ip_pool_sync_stop, Woken
  <2>8. CASE SyncThread
    <3>1. CASE SyncWait
      BY <3>1 DEF SyncWait
    <3>2. CASE SyncRound
      BY <3>2 DEF SyncRound
    <3> QED BY <2>8, <3>1, <3>2 DEF SyncThread
  <2>9. CASE TimerThread
    <3>1. CASE TimerWait
      BY <3>1 DEF TimerWait
    <3>2. CASE TimerRound
      BY <3>2 DEF TimerRound
    <3> QED BY <2>9, <3>1, <3>2 DEF TimerThread
  <2>10. ASSUME NEW t \in Tasks, packet_processor(t) PROVE Sections'
    BY <2>10 DEF packet_processor
  <2>11. CASE StartIoAndPool \/ ReceiveFails4 \/ DestroyPool \/ FreePools \/ SaveAndFree \/ handle_signal
    BY <2>1, <2>11 DEF StartIoAndPool, ReceiveFails4, DestroyPool, FreePools, SaveAndFree, handle_signal
  <2>12. CASE UNCHANGED mainVars
    BY <2>1, <2>12 DEF mainVars
  <2> QED BY <2>2, <2>3, <2>4, <2>5, <2>6, <2>7, <2>8, <2>9, <2>10, <2>11, <2>12 DEF MainNext, MainThread
<1> QED BY <1>1, <1>2

(* However many packets the thread pool holds, every mutex comes free again: the holder
   of the database's mutex waits for nothing and the holder of the pool's at most for
   the database's, so no cycle of waits exists; ip_pool_free and lease_db_free destroy
   their mutexes unlocked. *)
THEOREM NoMutexStaysLocked == MainSpec => []MutexesComeFree
<1> DEFINE Inv == MainInv /\ NoTimerYet /\ FreedLast /\ Sections
<1>1. MainInit => Inv
  <2>1. MainInit => NoTimerYet /\ FreedLast /\ Sections
    BY TasksAssumption DEF MainInit, NoTimerYet, FreedLast, Sections, Free4
  <2> QED BY <2>1, MainInitInv
<1>2. Inv /\ [MainNext]_mainVars => Inv'
  BY MainInvStep, NoTimerStep, SectionsStep
<1>3. Inv => MutexesComeFree
  <2> SUFFICES ASSUME Inv PROVE MutexesComeFree
    OBVIOUS
  <2>1. "pools" \in freed => pool_mutex = Free4
    BY DEF MainInv, MainTypeOK, Quiet, FreedInOrder, Sections, AfterPool, AfterSync, AfterPools
  <2>2. "db" \in freed => db_mutex = Free4
    BY DEF MainInv, MainTypeOK, Quiet, FreedLast, Sections, AfterSync, AfterTimer
  <2> QED BY <2>1, <2>2 DEF Sections, MutexesComeFree
<1> HIDE DEF Inv
<1> QED BY <1>1, <1>2, <1>3, PTL DEF MainSpec
================================================================================
