---------------------------- MODULE FileTransfer ----------------------------
(***************************************************************************)
(* Files between two phones, seen from the one that receives: sendMedia    *)
(* turns a file into an FT_META, its chunks and an FT_DONE, each a chat    *)
(* message, and onPacketReceived puts it together again.  Transfers may    *)
(* overlap, as each is a coroutine of its own, and may be called the same. *)
(* Nothing is acknowledged.  Messages are lost and overtake each other;    *)
(* the node's duplicate cache lets a copy pass only after a restart of the *)
(* node, which the transfers begun outlive.  Storage errors are left out.  *)
(***************************************************************************)
EXTENDS Naturals, Sequences

CONSTANTS
    Theirs,         \* transfers that arrive here
    Mine,           \* transfers this phone sends, which share its banner
    FileNames,
    TotalChunks,    \* transfer -> totalChunks
    MaxLag          \* bound: how many messages a late one may be behind

ASSUME FilesAssumption ==
    /\ Theirs \intersect Mine = {}
    /\ TotalChunks \in [Theirs \union Mine -> Nat]
    /\ MaxLag \in Nat

VARIABLES
    sending_step,   \* transfer -> messages sent of it
    to_show,        \* transfer -> its coroutine sets the banner next
    messages,       \* what the other phone has sent and may still arrive, or
                    \* arrive again, in the order of sending
    known,          \* those of them in the duplicate cache
    incoming,       \* incomingTransfers
    active,         \* _activeTransfer, the banner that shows progress
    files,          \* name -> what is stored under it, chunk by chunk
    items,          \* what _chatItems has of received files: an item names the
                    \* file it shows
    disturbed       \* ghost: a message was lost or overtaken, or the node
                    \* restarted

fileVars ==
    <<sending_step, to_show, messages, known, incoming, active, files, items, disturbed>>

NoTransfer  == [transfer |-> "none", sending |-> FALSE]
Gap         == <<"gap", 0>>
NoChunks(t) == [i \in 1..TotalChunks[t] |-> Gap]
With(f, x, y) == [z \in DOMAIN f \union {x} |-> IF z = x THEN y ELSE f[z]]
Without(f, x) == [z \in DOMAIN f \ {x} |-> f[z]]

FilesInit ==
    /\ sending_step = [t \in Theirs \union Mine |-> 0]
    /\ to_show = [t \in Theirs \union Mine |-> t \in Mine]
    /\ messages = << >> /\ known = {}
    /\ incoming = << >> /\ files = << >> /\ items = {}
    /\ active = NoTransfer
    /\ disturbed = FALSE

-----------------------------------------------------------------------------
(* sendMedia: each message it sends and each value it gives the banner is  *)
(* a step of its own.  The coroutine may also be cancelled, with its       *)
(* activity, and go on no more.  The other phone's banner is left out, and *)
(* so are the items of what this phone has sent, whose files are its own.  *)

\* What is too old to arrive is lost, if it has not arrived.
UnderWay(message) ==
    LET all == Append(messages, message)
        old == IF Len(all) > MaxLag THEN {Head(all)} ELSE {} IN
    /\ messages' = IF old = {} THEN all ELSE Tail(all)
    /\ known' = known \ old
    /\ disturbed' = (disturbed \/ ~ (old \subseteq known))

SendChatMessage(t, message) ==
    /\ ~ to_show[t]
    /\ sending_step' = [sending_step EXCEPT ![t] = @ + 1]
    /\ IF t \in Theirs THEN UnderWay(message)
                        ELSE UNCHANGED <<messages, known, disturbed>>
    /\ UNCHANGED <<incoming, active, files, items>>

\* The banner comes before META, after each chunk, and goes after DONE.
ShowTransfer(t) ==
    /\ to_show[t]
    /\ to_show' = [to_show EXCEPT ![t] = FALSE]
    /\ active' = IF sending_step[t] = TotalChunks[t] + 2 THEN NoTransfer
                 ELSE [transfer |-> t, sending |-> TRUE]
    /\ UNCHANGED <<sending_step, messages, known, incoming, files, items, disturbed>>

SendMeta(t) ==
    /\ sending_step[t] = 0
    /\ \E name \in FileNames :
         SendChatMessage(t, [type |-> "FT_META", transfer |-> t, name |-> name])
    /\ UNCHANGED to_show

SendChunk(t) ==
    /\ sending_step[t] \in 1..TotalChunks[t]
    /\ SendChatMessage(t, [type |-> "FT_CHUNK", transfer |-> t, index |-> sending_step[t]])
    /\ to_show' = [to_show EXCEPT ![t] = t \in Mine]

SendDone(t) ==
    /\ sending_step[t] = TotalChunks[t] + 1
    /\ SendChatMessage(t, [type |-> "FT_DONE", transfer |-> t])
    /\ to_show' = [to_show EXCEPT ![t] = t \in Mine]

-----------------------------------------------------------------------------
(* onPacketReceived, in the node's receive thread.                         *)

\* A message the cache does not know, at any time after it was sent.
Arrives(k, type) ==
    /\ messages[k] \notin known
    /\ messages[k].type = type
    /\ known' = known \union {messages[k]}
    /\ disturbed' = (disturbed \/ \E j \in 1..(k - 1) : messages[j] \notin known)
    /\ UNCHANGED <<sending_step, to_show, messages>>

ReceiveMeta(k) ==
    /\ Arrives(k, "FT_META")
    /\ LET t == messages[k].transfer IN
       /\ incoming' = With(incoming, t, [name |-> messages[k].name, chunks |-> NoChunks(t)])
       /\ active' = [transfer |-> t, sending |-> FALSE]
    /\ UNCHANGED <<files, items>>

\* Mutant of StoreChunk: a chunk goes to the transfer that is shown.
StoreChunkOfShown(t, i) ==
    LET to == IF active.transfer \in DOMAIN incoming THEN active.transfer ELSE t IN
    /\ t \in DOMAIN incoming
    /\ incoming' = [incoming EXCEPT ![to].chunks[i] = <<t, i>>]
    /\ active' = [transfer |-> t, sending |-> FALSE]

\* Mutant of StoreChunk: the banner is set before the transfer is looked up.
StoreChunkShowingAny(t, i) ==
    /\ incoming' = IF t \in DOMAIN incoming
                   THEN [incoming EXCEPT ![t].chunks[i] = <<t, i>>] ELSE incoming
    /\ active' = [transfer |-> t, sending |-> FALSE]

StoreChunk(t, i) ==
    /\ t \in DOMAIN incoming
    /\ incoming' = [incoming EXCEPT ![t].chunks[i] = <<t, i>>]
    /\ active' = [transfer |-> t, sending |-> FALSE]

\* A chunk of a transfer that has not begun, or is over, is ignored.
ReceiveChunk(k) ==
    /\ Arrives(k, "FT_CHUNK")
    /\ LET t == messages[k].transfer IN
       \/ StoreChunk(t, messages[k].index)
       \/ t \notin DOMAIN incoming /\ UNCHANGED <<incoming, active>>
    /\ UNCHANGED <<files, items>>

\* What has come is written, over whatever has the same name, and the chat
\* gets one more item.
ReceiveDone(k) ==
    /\ Arrives(k, "FT_DONE")
    /\ active' = NoTransfer
    /\ LET t == messages[k].transfer IN
       /\ incoming' = Without(incoming, t)
       /\ \/ /\ t \in DOMAIN incoming
             /\ files' = With(files, incoming[t].name, incoming[t].chunks)
             /\ items' = items \union {[transfer |-> t, name |-> incoming[t].name]}
          \/ t \notin DOMAIN incoming /\ UNCHANGED <<files, items>>

\* stopJokerProtocol and startJokerProtocol: an empty duplicate cache, while
\* incomingTransfers belongs to the process.
RestartNode ==
    /\ known # {}
    /\ known' = {} /\ disturbed' = TRUE
    /\ UNCHANGED <<sending_step, to_show, messages, incoming, active, files, items>>

FilesNext ==
    \/ \E t \in Theirs \union Mine :
         ShowTransfer(t) \/ SendMeta(t) \/ SendChunk(t) \/ SendDone(t)
    \/ \E k \in DOMAIN messages : ReceiveMeta(k) \/ ReceiveChunk(k) \/ ReceiveDone(k)
    \/ RestartNode

FilesSpec == FilesInit /\ [][FilesNext]_fileVars

-----------------------------------------------------------------------------
(* What is stored under a name is one transfer's, and an item of the chat  *)
(* says so: however transfers overlap, share a name, and begin again after *)
(* a restart, the file has the chunks of that transfer only, each in its   *)
(* place, and it lacks one only if something was lost, overtaken or        *)
(* restarted (MainActivity.kt:163-203).                                    *)
FilesAreWhatWasSent ==
    \A name \in DOMAIN files : \E item \in items :
        /\ item.name = name
        /\ DOMAIN files[name] = 1..TotalChunks[item.transfer]
        /\ \A i \in DOMAIN files[name] :
             \/ files[name][i] = <<item.transfer, i>>
             \/ files[name][i] = Gap /\ disturbed

(* The banner shows a transfer that has not ended: one whose coroutine, be *)
(* it that it was cancelled, has not taken the banner away, or one of      *)
(* which META has come and DONE has not.  The sending coroutines and the   *)
(* receive thread all write it, and chunks come after the end: what has    *)
(* ended must not be shown for good.                                       *)
BannerIsOfATransfer ==
    \/ active = NoTransfer
    \/ /\ active.sending
       /\ \/ sending_step[active.transfer] <= TotalChunks[active.transfer] + 1
          \/ to_show[active.transfer]
    \/ ~ active.sending /\ active.transfer \in DOMAIN incoming
=============================================================================
