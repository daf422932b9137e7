---------------------------- MODULE PacketSocket ----------------------------
(***************************************************************************)
(* LinuxAfPacketAdapter: adapters that listen on one network interface,    *)
(* each with its raw socket and its receive thread.  What they share is    *)
(* the interface's IFF_PROMISC flag, one bit for the whole host.  A socket *)
(* takes in frames from its construction to its destruction, whether the   *)
(* adapter runs or not.  shutdown, with which Stop means to wake poll, is  *)
(* not supported by packet sockets and does nothing.  Sending changes      *)
(* nothing here: a sender's host does not hear its own frames.             *)
(***************************************************************************)
EXTENDS Naturals, Sequences

CONSTANTS
    Adapters,
    Backlog         \* frames a socket's receive buffer holds

VARIABLES
    promisc,        \* IFF_PROMISC of the interface
    pc,             \* where the thread that owns the adapter is
    dying,          \* it is in the destructor
    running,        \* running_
    rx,             \* where rx_thread_ is
    buffer          \* the socket's receive buffer, by addressee

socketVars == <<promisc, pc, dying, running, rx, buffer>>

SocketInit ==
    /\ promisc = FALSE
    /\ pc = [a \in Adapters |-> "none"]
    /\ dying = [a \in Adapters |-> FALSE]
    /\ running = [a \in Adapters |-> FALSE]
    /\ rx = [a \in Adapters |-> "none"]
    /\ buffer = [a \in Adapters |-> << >>]

\* The constructor; if it throws it has closed what it opened.
Construct(a) ==
    /\ pc[a] = "none"
    /\ pc' = [pc EXCEPT ![a] = "idle"]
    /\ UNCHANGED <<promisc, dying, running, rx, buffer>>

\* Either ioctl may fail, which is reported at most.
SetPromiscuousMode(enable) == promisc' = enable \/ UNCHANGED promisc

Start(a) ==
    /\ pc[a] = "idle" /\ ~ dying[a] /\ ~ running[a]
    /\ pc' = [pc EXCEPT ![a] = "starting"]
    /\ SetPromiscuousMode(TRUE)
    /\ UNCHANGED <<dying, running, rx, buffer>>

SpawnRx(a) ==
    /\ pc[a] = "starting"
    /\ pc' = [pc EXCEPT ![a] = "idle"]
    /\ running' = [running EXCEPT ![a] = TRUE]
    /\ rx' = [rx EXCEPT ![a] = "loop"]
    /\ UNCHANGED <<promisc, dying, buffer>>

Destroy(a) ==
    /\ pc[a] = "idle" /\ ~ dying[a]
    /\ dying' = [dying EXCEPT ![a] = TRUE]
    /\ UNCHANGED <<promisc, pc, running, rx, buffer>>

Stop(a) ==
    /\ pc[a] = "idle" /\ running[a]
    /\ pc' = [pc EXCEPT ![a] = "joining"]
    /\ running' = [running EXCEPT ![a] = FALSE]
    /\ UNCHANGED <<promisc, dying, rx, buffer>>

\* Mutant of JoinRx: the thread is let go and not waited for.
DetachRx(a) ==
    /\ pc[a] = "joining"
    /\ pc' = [pc EXCEPT ![a] = "leaving"]
    /\ UNCHANGED <<promisc, dying, running, rx, buffer>>

JoinRx(a) ==
    /\ pc[a] = "joining" /\ rx[a] = "ended"
    /\ pc' = [pc EXCEPT ![a] = "leaving"]
    /\ rx' = [rx EXCEPT ![a] = "none"]
    /\ UNCHANGED <<promisc, dying, running, buffer>>

LeavePromiscuous(a) ==
    /\ pc[a] = "leaving"
    /\ pc' = [pc EXCEPT ![a] = "idle"]
    /\ SetPromiscuousMode(FALSE)
    /\ UNCHANGED <<dying, running, rx, buffer>>

Close(a) ==
    /\ pc[a] = "idle" /\ dying[a] /\ ~ running[a]
    /\ pc' = [pc EXCEPT ![a] = "none"]
    /\ dying' = [dying EXCEPT ![a] = FALSE]
    /\ buffer' = [buffer EXCEPT ![a] = << >>]
    /\ UNCHANGED <<promisc, running, rx>>

-----------------------------------------------------------------------------
(* ReceiveLoop.                                                            *)

RxGoes(a, from, to) == rx[a] = from /\ rx' = [rx EXCEPT ![a] = to]

RxLoop(a) ==
    /\ RxGoes(a, "loop", IF running[a] THEN "poll" ELSE "ended")
    /\ UNCHANGED <<promisc, pc, dying, running, buffer>>

\* Mutant of PollReturns: poll without a time limit, for Stop to wake.
PollReturnsReady(a) ==
    /\ buffer[a] # << >> /\ RxGoes(a, "poll", "recv")
    /\ UNCHANGED <<promisc, pc, dying, running, buffer>>

\* After 100 ms, with EINTR or with an event that is not POLLIN; or with a
\* frame.
PollReturns(a) ==
    /\ \/ RxGoes(a, "poll", "loop")
       \/ buffer[a] # << >> /\ RxGoes(a, "poll", "recv")
    /\ UNCHANGED <<promisc, pc, dying, running, buffer>>

PollFails(a) ==
    /\ RxGoes(a, "poll", "ended")
    /\ UNCHANGED <<promisc, pc, dying, running, buffer>>

\* A frame that is too short or of another type goes no further.
Receive(a) ==
    /\ RxGoes(a, "recv", "loop") \/ RxGoes(a, "recv", "callback")
    /\ buffer' = [buffer EXCEPT ![a] = Tail(@)]
    /\ UNCHANGED <<promisc, pc, dying, running>>

CallbackReturns(a) ==
    /\ RxGoes(a, "callback", "loop")
    /\ UNCHANGED <<promisc, pc, dying, running, buffer>>

\* External: the interface passes up what is addressed to it or to all, and
\* the rest when it is promiscuous; a full buffer loses it.
FrameOnAir(addressee) ==
    /\ addressee = "us" \/ promisc
    /\ buffer' = [a \in Adapters |->
            IF pc[a] # "none" /\ Len(buffer[a]) < Backlog
            THEN Append(buffer[a], addressee) ELSE buffer[a]]
    /\ UNCHANGED <<promisc, pc, dying, running, rx>>

Owner(a) ==
    \/ Construct(a) \/ Start(a) \/ SpawnRx(a) \/ Destroy(a)
    \/ Stop(a) \/ JoinRx(a) \/ LeavePromiscuous(a) \/ Close(a)

\* What the receive thread does by itself; an error of poll is not its doing.
ReceiveLoop(a) == RxLoop(a) \/ PollReturns(a) \/ Receive(a) \/ CallbackReturns(a)

SocketNext ==
    \/ \E a \in Adapters : Owner(a) \/ ReceiveLoop(a) \/ PollFails(a)
    \/ \E addressee \in {"us", "others"} : FrameOnAir(addressee)

SocketSpec == SocketInit /\ [][SocketNext]_socketVars

-----------------------------------------------------------------------------
(* When Stop has returned the receive thread is out of the callback and    *)
(* off the socket, so whoever owns the adapter may free what the callback  *)
(* uses, and the destructor may close the socket.                          *)
ThreadEndsWithStop ==
    \A a \in Adapters :
        rx[a] \notin {"none", "ended"} => running[a] \/ pc[a] = "joining"

(* Stop returns, although its shutdown wakes nobody: poll gives up by      *)
(* itself (linux_af_packet.cpp:157).                                       *)
StopReturns == \A a \in Adapters : pc[a] = "joining" ~> pc[a] = "idle"
=============================================================================
