------------------------------ MODULE DNSServer ------------------------------
(***************************************************************************)
(* The life of the DNS server of internal/dns/server.go and workers.go:    *)
(* listeners that Start binds one after the other and may fail to bind,    *)
(* a loop per listener, a fixed pool of workers behind a bounded queue for *)
(* UDP, a bounded number of TCP connections, and Shutdown, which several   *)
(* goroutines may call with deadlines of their own.                        *)
(*                                                                         *)
(* Loops, workers and connections are interchangeable, so they are         *)
(* counted.  What a query does is Pipeline.Handle's business: here a job   *)
(* is busy and then done.                                                  *)
(***************************************************************************)
EXTENDS Integers

CONSTANTS Addrs,       \* number of listen addresses
          Workers,     \* size of the UDP worker pool
          QueueCap,    \* capacity of the job queue (8 per worker in the code)
          TCPSlots,    \* capacity of the tcpSlots channel
          MaxLeaving,  \* bound on connections between slot release and wg.Done
          Stoppers     \* goroutines that call Shutdown

ASSUME ServerAssumption == /\ Addrs \in Nat \ {0}
                           /\ Workers \in Nat \ {0}
                           /\ QueueCap \in Nat
                           /\ TCPSlots \in Nat
                           /\ MaxLeaving \in Nat \ {0}

VARIABLES starter,   \* where Start stands
          bound,     \* addresses whose two listeners are bound
          udpLoops, tcpLoops,   \* serveUDP and serveTCP goroutines running
          datagrams, \* UDP loops back from a read, before Submit
          accepted,  \* TCP loops back from AcceptTCP, before a slot is asked for
          admitted,  \* TCP loops that got a slot, before wg.Add
          conns,     \* TCP connections being served
          leaving,   \* connections closed, slot released, wg.Done to come
          slots,     \* taken places of the tcpSlots channel
          queue,     \* jobs waiting for a worker
          idle, busy,   \* workers
          wg,        \* Server.wg
          canceled,  \* runCtx is done
          closed,    \* the bound listeners are closed
          poolDone,  \* workerPool.done is closed
          ready,
          shutdownDone, \* "nil", "open" or "closed"
          janitor,   \* the goroutine that Shutdown starts; holds shutdownMu in "join"
          caller,    \* Shutdown calls
          expired    \* the callers whose context is done

startVars == <<starter, bound>>
connVars == <<accepted, admitted, conns, leaving, slots>>
loopVars == <<udpLoops, tcpLoops, datagrams, connVars, wg>>
poolVars == <<queue, idle, busy, poolDone>>
shutVars == <<shutdownDone, janitor, caller, expired>>
vars == <<startVars, loopVars, poolVars, canceled, closed, ready, shutVars>>

Free == janitor # "join"   \* shutdownMu

Init == /\ starter = "new" /\ bound = 0
        /\ udpLoops = 0 /\ tcpLoops = 0 /\ datagrams = 0
        /\ accepted = 0 /\ admitted = 0 /\ conns = 0 /\ leaving = 0 /\ slots = 0
        /\ queue = 0 /\ idle = 0 /\ busy = 0 /\ wg = 0
        /\ canceled = FALSE /\ closed = FALSE /\ poolDone = FALSE /\ ready = FALSE
        /\ shutdownDone = "nil" /\ janitor = "off"
        /\ caller = [c \in Stoppers |-> "idle"]
        /\ expired = [c \in Stoppers |-> FALSE]
-----------------------------------------------------------------------------
(* Start, up to the listeners: a worker pool and free TCP slots. *)
StartPool == /\ starter = "new" /\ Free
             /\ starter' = "udp"
             /\ shutdownDone' = "nil"
             /\ idle' = Workers
             /\ UNCHANGED <<bound, loopVars, queue, busy, poolDone, canceled, closed, ready,
                            janitor, caller, expired>>

(* One address: its UDP listener and loop, then its TCP listener and loop. *)
BindUDP == /\ starter = "udp" /\ bound < Addrs
           /\ starter' = "tcp"
           /\ udpLoops' = udpLoops + 1 /\ wg' = wg + 1
           /\ UNCHANGED <<bound, tcpLoops, datagrams, connVars, poolVars, canceled, closed,
                          ready, shutVars>>

BindTCP == /\ starter = "tcp"
           /\ starter' = "udp" /\ bound' = bound + 1
           /\ tcpLoops' = tcpLoops + 1 /\ wg' = wg + 1
           /\ UNCHANGED <<udpLoops, datagrams, connVars, poolVars, canceled, closed,
                          ready, shutVars>>

(* Resolving or binding either listener fails: cleanupStarted, deferred. *)
BindFails == /\ \/ starter = "udp" /\ bound < Addrs
                \/ starter = "tcp"
             /\ starter' = "cleanup"
             /\ canceled' = TRUE /\ closed' = TRUE /\ ready' = FALSE
             /\ UNCHANGED <<bound, loopVars, poolVars, shutVars>>

Started == /\ starter = "udp" /\ bound = Addrs
           /\ starter' = "started"
           /\ ready' = TRUE
           /\ UNCHANGED <<bound, loopVars, poolVars, canceled, closed, shutVars>>

(* cleanupStarted waits for the loops, then closes and joins the pool. *)
CleanupClose == /\ starter = "cleanup" /\ wg = 0
                /\ starter' = "join"
                /\ poolDone' = TRUE
                /\ UNCHANGED <<bound, loopVars, queue, idle, busy, canceled, closed, ready, shutVars>>

CleanupJoinM == /\ starter = "join"
                /\ starter' = "failed"
                /\ UNCHANGED <<bound, loopVars, poolVars, canceled, closed, ready, shutVars>>
CleanupJoin == /\ starter = "join" /\ idle = 0 /\ busy = 0
               /\ starter' = "failed"
               /\ UNCHANGED <<bound, loopVars, poolVars, canceled, closed, ready, shutVars>>
-----------------------------------------------------------------------------
(* serveUDP: a read returns a datagram while the listener is open.  What   *)
(* the loop does with it may come after the close.                         *)
ReadFromUDP == /\ udpLoops > datagrams /\ ~closed
               /\ datagrams' = datagrams + 1
               /\ UNCHANGED <<startVars, udpLoops, tcpLoops, connVars, wg, poolVars, canceled,
                              closed, ready, shutVars>>

(* cleanupStarted and the janitor end by setting workers to nil. *)
PoolNil == starter = "failed" \/ shutdownDone = "closed"

(* The job is queued, or dropped if the queue is full or the pool closed;  *)
(* with no pool it would run in a goroutine that nobody waits for.         *)
Submit == /\ datagrams > 0
          /\ datagrams' = datagrams - 1
          /\ queue' = IF queue < QueueCap /\ ~poolDone THEN queue + 1 ELSE queue
          /\ busy' = IF PoolNil THEN busy + 1 ELSE busy
          /\ UNCHANGED <<startVars, udpLoops, tcpLoops, connVars, wg, idle, poolDone, canceled,
                         closed, ready, shutVars>>

(* Any read or accept error ends a loop that has nothing in hand: the      *)
(* listener was closed, or the operating system reported something else.   *)
UDPLoopEnds == /\ udpLoops > datagrams
               /\ udpLoops' = udpLoops - 1 /\ wg' = wg - 1
               /\ UNCHANGED <<startVars, tcpLoops, datagrams, connVars, poolVars, canceled,
                              closed, ready, shutVars>>

TCPLoopEnds == /\ tcpLoops > accepted + admitted
               /\ tcpLoops' = tcpLoops - 1 /\ wg' = wg - 1
               /\ UNCHANGED <<startVars, udpLoops, datagrams, connVars, poolVars, canceled,
                              closed, ready, shutVars>>

(* serveTCP: AcceptTCP returns a connection while the listener is open,    *)
AcceptTCP == /\ tcpLoops > accepted + admitted /\ ~closed
             /\ accepted' = accepted + 1
             /\ UNCHANGED <<startVars, udpLoops, tcpLoops, datagrams, admitted, conns, leaving,
                            slots, wg, poolVars, canceled, closed, ready, shutVars>>

(* the loop takes a slot for it, or closes it at once if none is free,     *)
acquireTCPSlotM == TRUE
acquireTCPSlot == slots < TCPSlots

AdmitTCP == /\ accepted > 0
            /\ acquireTCPSlot
            /\ accepted' = accepted - 1 /\ admitted' = admitted + 1 /\ slots' = slots + 1
            /\ UNCHANGED <<startVars, udpLoops, tcpLoops, datagrams, conns, leaving, wg,
                           poolVars, canceled, closed, ready, shutVars>>

RefuseTCP == /\ accepted > 0
             /\ ~acquireTCPSlot
             /\ accepted' = accepted - 1
             /\ UNCHANGED <<startVars, udpLoops, tcpLoops, datagrams, admitted, conns, leaving,
                            slots, wg, poolVars, canceled, closed, ready, shutVars>>

(* and counts it before its goroutine starts: by then Shutdown may have    *)
(* closed the listeners and be in wg.Wait.                                 *)
ServeTCPM == /\ admitted > 0
             /\ admitted' = admitted - 1 /\ conns' = conns + 1
             /\ UNCHANGED <<startVars, udpLoops, tcpLoops, datagrams, accepted, leaving, slots,
                            wg, poolVars, canceled, closed, ready, shutVars>>
ServeTCP == /\ admitted > 0
            /\ wg' = wg + 1
            /\ admitted' = admitted - 1 /\ conns' = conns + 1
            /\ UNCHANGED <<startVars, udpLoops, tcpLoops, datagrams, accepted, leaving, slots,
                           poolVars, canceled, closed, ready, shutVars>>

(* handleTCPConn returns: at its client's EOF, on an error, or when the    *)
(* connection's deadline passes.  The deferred calls close it and release  *)
(* the slot, and only then tell the wait group.                            *)
ConnEnds == /\ conns > 0 /\ leaving < MaxLeaving
            /\ conns' = conns - 1 /\ slots' = slots - 1 /\ leaving' = leaving + 1
            /\ UNCHANGED <<startVars, udpLoops, tcpLoops, datagrams, accepted, admitted, wg,
                           poolVars, canceled, closed, ready, shutVars>>

ConnDone == /\ leaving > 0
            /\ leaving' = leaving - 1 /\ wg' = wg - 1
            /\ UNCHANGED <<startVars, udpLoops, tcpLoops, datagrams, accepted, admitted, conns,
                           slots, poolVars, canceled, closed, ready, shutVars>>

(* A worker's select takes any ready case, so a job may still be taken     *)
(* after cancellation; jobs left in the queue are dropped.                 *)
TakeJob == /\ idle > 0 /\ queue > 0
           /\ idle' = idle - 1 /\ busy' = busy + 1 /\ queue' = queue - 1
           /\ UNCHANGED <<startVars, loopVars, poolDone, canceled, closed, ready, shutVars>>

FinishJob == /\ busy > 0
             /\ busy' = busy - 1 /\ idle' = idle + 1
             /\ UNCHANGED <<startVars, loopVars, queue, poolDone, canceled, closed, ready, shutVars>>

WorkerExits == /\ idle > 0
               /\ canceled \/ poolDone
               /\ idle' = idle - 1
               /\ UNCHANGED <<startVars, loopVars, queue, busy, poolDone, canceled, closed, ready, shutVars>>

(* SIGINT or SIGTERM cancels the context Start was given (external). *)
Signal == /\ starter # "new" /\ ~canceled
          /\ canceled' = TRUE
          /\ UNCHANGED <<startVars, loopVars, poolVars, closed, ready, shutVars>>
-----------------------------------------------------------------------------
(* Shutdown is called once Start has returned. *)
Call(c) == /\ caller[c] = "idle"
           /\ starter \in {"started", "failed"}
           /\ caller' = [caller EXCEPT ![c] = "lock"]
           /\ UNCHANGED <<startVars, loopVars, poolVars, canceled, closed, ready,
                          shutdownDone, janitor, expired>>

(* The first caller closes everything and starts the janitor; later ones   *)
(* wait for the same channel.  Both in one lock section.                   *)
ShutdownFirstM(c) == /\ caller[c] = "lock" /\ Free
                     /\ shutdownDone = "nil"
                     /\ shutdownDone' = "open" /\ janitor' = "wait"
                     /\ ready' = FALSE /\ canceled' = TRUE
                     /\ caller' = [caller EXCEPT ![c] = "wait"]
                     /\ UNCHANGED <<startVars, loopVars, poolVars, closed, expired>>
ShutdownFirst(c) == /\ caller[c] = "lock" /\ Free
                    /\ shutdownDone = "nil"
                    /\ shutdownDone' = "open" /\ janitor' = "wait"
                    /\ ready' = FALSE /\ canceled' = TRUE /\ closed' = TRUE
                    /\ caller' = [caller EXCEPT ![c] = "wait"]
                    /\ UNCHANGED <<startVars, loopVars, poolVars, expired>>

ShutdownAgain(c) == /\ caller[c] = "lock" /\ Free
                    /\ shutdownDone # "nil"
                    /\ caller' = [caller EXCEPT ![c] = "wait"]
                    /\ UNCHANGED <<startVars, loopVars, poolVars, canceled, closed, ready,
                                   shutdownDone, janitor, expired>>

(* The janitor: s.wg.Wait(), then with shutdownMu held workers.Close(),    *)
(* which closes the pool's done channel and joins the workers, then        *)
(* close(done).                                                            *)
JanitorCloses == /\ janitor = "wait" /\ wg = 0
                 /\ janitor' = "join"
                 /\ poolDone' = TRUE
                 /\ UNCHANGED <<startVars, loopVars, queue, idle, busy, canceled, closed, ready,
                                shutdownDone, caller, expired>>

JanitorJoins == /\ janitor = "join" /\ idle = 0 /\ busy = 0
                /\ janitor' = "off"
                /\ shutdownDone' = "closed"
                /\ UNCHANGED <<startVars, loopVars, poolVars, canceled, closed, ready, caller, expired>>

ReturnOK(c) == /\ caller[c] = "wait" /\ shutdownDone = "closed"
               /\ caller' = [caller EXCEPT ![c] = "ok"]
               /\ UNCHANGED <<startVars, loopVars, poolVars, canceled, closed, ready,
                              shutdownDone, janitor, expired>>

ReturnExpired(c) == /\ caller[c] = "wait" /\ expired[c]
                    /\ caller' = [caller EXCEPT ![c] = "timeout"]
                    /\ UNCHANGED <<startVars, loopVars, poolVars, canceled, closed, ready,
                                   shutdownDone, janitor, expired>>

(* A caller's deadline passes (external). *)
Expire(c) == /\ caller[c] \in {"lock", "wait"} /\ ~expired[c]
             /\ expired' = [expired EXCEPT ![c] = TRUE]
             /\ UNCHANGED <<startVars, loopVars, poolVars, canceled, closed, ready,
                            shutdownDone, janitor, caller>>

Shutdown(c) == \/ ShutdownFirst(c) \/ ShutdownAgain(c)
               \/ ReturnOK(c) \/ ReturnExpired(c)

Start == StartPool \/ BindUDP \/ BindTCP \/ BindFails \/ Started \/ CleanupClose \/ CleanupJoin
LoopEnds == UDPLoopEnds \/ TCPLoopEnds
Janitor == JanitorCloses \/ JanitorJoins

Next == \/ Start
        \/ ReadFromUDP \/ Submit \/ LoopEnds
        \/ AcceptTCP \/ AdmitTCP \/ RefuseTCP \/ ServeTCP \/ ConnEnds \/ ConnDone
        \/ TakeJob \/ FinishJob \/ WorkerExits
        \/ Signal
        \/ Janitor
        \/ \E c \in Stoppers : Call(c) \/ Shutdown(c) \/ Expire(c)

Spec == Init /\ [][Next]_vars

(* The server's own goroutines make progress: a loop deals with what it    *)
(* has in hand, a closed listener fails its next call, a connection has a  *)
(* deadline, the workers' select sees a closed channel, and Start,         *)
(* Shutdown and the janitor run to their next blocking call.               *)
Progress == /\ WF_vars(Start)
            /\ WF_vars(Submit)
            /\ WF_vars(AdmitTCP \/ RefuseTCP) /\ WF_vars(ServeTCP)
            /\ WF_vars(closed /\ LoopEnds)
            /\ WF_vars(ConnEnds) /\ WF_vars(ConnDone)
            /\ WF_vars(WorkerExits)
            /\ WF_vars(Janitor)
            /\ \A c \in Stoppers : WF_vars(Shutdown(c))

(* Jobs end: every wait in Pipeline.Handle has a timeout. *)
FairSpec == Spec /\ Progress /\ WF_vars(FinishJob)
-----------------------------------------------------------------------------
TypeOK ==
    /\ starter \in {"new", "udp", "tcp", "cleanup", "join", "started", "failed"}
    /\ bound \in Nat /\ udpLoops \in Nat /\ tcpLoops \in Nat
    /\ datagrams \in Nat /\ accepted \in Nat /\ admitted \in Nat
    /\ conns \in Nat /\ leaving \in Nat /\ slots \in Nat
    /\ queue \in 0..QueueCap
    /\ idle \in Nat /\ busy \in Nat /\ wg \in Nat
    /\ canceled \in BOOLEAN /\ closed \in BOOLEAN /\ poolDone \in BOOLEAN /\ ready \in BOOLEAN
    /\ shutdownDone \in {"nil", "open", "closed"}
    /\ janitor \in {"off", "wait", "join"}
    /\ caller \in [Stoppers -> {"idle", "lock", "wait", "ok", "timeout"}]
    /\ expired \in [Stoppers -> BOOLEAN]

(* The wait group counts exactly the loops and connections that Shutdown   *)
(* must wait for; a connection that is admitted or served holds a slot,    *)
(* and there are no more of them than slots.  A loop with something in     *)
(* hand is still counted itself, so wg.Add never meets a counter at zero.  *)
Accounting == /\ wg = udpLoops + tcpLoops + conns + leaving
              /\ slots = admitted + conns
              /\ slots <= TCPSlots
              /\ datagrams <= udpLoops /\ accepted + admitted <= tcpLoops
              /\ idle + busy <= Workers

Stopped == /\ udpLoops = 0 /\ tcpLoops = 0 /\ conns = 0 /\ leaving = 0
           /\ idle = 0 /\ busy = 0

(* server.go: "Shutdown closes listeners and waits for active workers to   *)
(* finish."  Once any Shutdown has returned nil, no loop, connection, job  *)
(* or worker is left, and none comes back, even from a connection or a     *)
(* datagram that a loop had in hand when the listeners were closed.        *)
ShutdownComplete == (\E c \in Stoppers : caller[c] = "ok") => Stopped

(* A Start that fails half way leaves nothing of what it had started. *)
FailedStartClean == starter = "failed" => Stopped

(* Start returns, a Shutdown that began completes, and every caller of it  *)
(* returns, deadline or not.                                               *)
StartReturns == (starter = "udp") ~> (starter \in {"started", "failed"})
ShutdownEnds == (shutdownDone = "open") ~> (shutdownDone = "closed")
CallersReturn == \A c \in Stoppers : (caller[c] = "lock") ~> (caller[c] \in {"ok", "timeout"})

(* What holds at every moment of start, service and shutdown: well-typed   *)
(* state, with the queue and the slots within their limits, and an exact   *)
(* wait group.                                                             *)
Consistent == TypeOK /\ Accounting

(* Nobody waits for ever: Start returns, a shutdown completes, and each    *)
(* caller of Shutdown returns, wherever binding failed and whoever called  *)
(* first.                                                                  *)
Terminates == StartReturns /\ ShutdownEnds /\ CallersReturn
=============================================================================
