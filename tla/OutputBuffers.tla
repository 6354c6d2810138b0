----------------------------- MODULE OutputBuffers -----------------------------
(***************************************************************************)
(* The reply side of the server's connections (Xserver/os/io.c,            *)
(* connection.c, WaitFor.c): replies and events are collected in a buffer  *)
(* per client, written with writev when the buffer is full, when a client  *)
(* has had its turn and before the server sleeps, and kept when the        *)
(* client does not read.  A descriptor closed by a failed write stays in   *)
(* the server's sets until the client is closed down, and the kernel may   *)
(* give the same number to the next connection.                            *)
(*                                                                         *)
(* The server is one thread: pc is its stack of procedures.  FlushClient   *)
(* is split at every call of writev, so that peers read in between.        *)
(***************************************************************************)
EXTENDS Naturals, Sequences, FiniteSets

CONSTANTS
    MaxConns,        \* bound: connections made in one behaviour
    NFds,            \* descriptors a client may get
    MaxBytes,        \* bound: bytes written for one connection, pads included
    Counts,          \* lengths handed to WriteToClient
    Align,           \* bytes of a protocol unit (4)
    BUFSIZE, BUFWATERMARK,
    SockSize,        \* bytes the kernel holds for one connection
    MaxDown,         \* bound: peers that may go away
    Faults           \* subset of {"PeerCloses", "NoMemory", "EMSGSIZE"}

ASSUME NumbersAssumption ==
    /\ MaxConns \in Nat \ {0} /\ NFds \in Nat \ {0} /\ MaxBytes \in Nat
    /\ Align \in Nat \ {0} /\ Counts \subseteq Nat \ {0}
    /\ BUFSIZE \in Nat \ {0} /\ BUFWATERMARK \in Nat /\ SockSize \in Nat \ {0}
    /\ MaxDown \in Nat

Conns == 1..MaxConns
Fds == 1..NFds
NoFd == 0
NoConn == 0
PadByte == 0
\* The k-th byte written for connection c, told apart from every other.
Byte(c, k) == c * (MaxBytes + 1) + k

VARIABLES
    (* one client and its OsCommRec per connection *)
    status,          \* "unused", "running", "exception" (noClientException), "gone"
    fdOf,            \* oc->fd
    trans,           \* oc->trans_conn is not NULL: the kernel has the descriptor open
    output,          \* oc->output: a buffer, or NoOutput
    freeOutputs,     \* FreeOutputs: the sizes of the buffers in the list
    translation,     \* ConnectionTranslation
    OutputPending, ClientsWithInput, ClientsWriteBlocked,
    NewOutputPending, AnyClientsWriteBlocked,
    (* the thread *)
    pc,              \* what it executes, innermost procedure first
    newoutput, mask, \* locals of FlushAllOutput
    flush,           \* locals of FlushClient
    closing,         \* the client CloseDownClient works on
    (* the kernel and the peers *)
    sock, received, peer,
    (* history *)
    sent             \* every byte handed to WriteToClient, and its pads

clientVars == <<status, fdOf, trans, translation>>
bufferVars == <<output, freeOutputs>>
setVars == <<OutputPending, ClientsWithInput, ClientsWriteBlocked>>
flagVars == <<NewOutputPending, AnyClientsWriteBlocked>>
threadVars == <<pc, newoutput, mask, flush, closing>>
peerVars == <<sock, received, peer>>
vars == <<clientVars, bufferVars, setVars, flagVars, threadVars, peerVars, sent>>

NoOutput == [size |-> 0, buf |-> <<>>]
Fresh == [size |-> BUFSIZE, buf |-> <<>>]
NoFlush == [who |-> NoConn, extra |-> <<>>, written |-> 0, todo |-> 0]

\* padlength[count & 3]
Pad(n) == (Align - (n % Align)) % Align
Pads(n) == [i \in 1..n |-> PadByte]
LeastOf(S) == CHOOSE x \in S : \A y \in S : x <= y

Init ==
    /\ status = [c \in Conns |-> "unused"] /\ fdOf = [c \in Conns |-> NoFd]
    /\ trans = [c \in Conns |-> FALSE] /\ output = [c \in Conns |-> NoOutput]
    /\ freeOutputs = <<>> /\ translation = [f \in Fds |-> NoConn]
    /\ OutputPending = {} /\ ClientsWithInput = {} /\ ClientsWriteBlocked = {}
    /\ NewOutputPending = FALSE /\ AnyClientsWriteBlocked = FALSE
    /\ pc = <<"dispatch">> /\ newoutput = FALSE /\ mask = {} /\ flush = NoFlush
    /\ closing = NoConn
    /\ sock = [c \in Conns |-> <<>>] /\ received = [c \in Conns |-> <<>>]
    /\ peer = [c \in Conns |-> "up"] /\ sent = [c \in Conns |-> <<>>]

(***************************************************************************)
(* The stack of procedures.                                                *)
(***************************************************************************)
At(label) == Head(pc) = label
Goto(label) == pc' = <<label>> \o Tail(pc)
Call(label) == pc' = <<label>> \o pc
Return == pc' = Tail(pc)

Connected(c) == status[c] \in {"running", "exception"}

\* The transport is closed and the client left for dix to close down.
MarkClientException(c) ==
    /\ trans' = [trans EXCEPT ![c] = FALSE]
    /\ status' = [status EXCEPT ![c] = "exception"]
    /\ UNCHANGED <<fdOf, translation>>

(***************************************************************************)
(* WriteToClient: events and replies, from requests, from the callbacks    *)
(* of FlushAllOutput and from what closing another client notifies.        *)
(***************************************************************************)
MayWrite == pc[1] \in {"dispatch", "callback", "establish"}

\* The buffer the client writes to, a free one or a new one, and what it
\* leaves of the free list.
TakeOutput(c) ==
    IF output[c] # NoOutput THEN [oco |-> output[c], free |-> freeOutputs]
    ELSE IF freeOutputs # <<>>
         THEN [oco |-> [size |-> Head(freeOutputs), buf |-> <<>>], free |-> Tail(freeOutputs)]
    ELSE [oco |-> Fresh, free |-> <<>>]

\* (mutant of StillPending) The flag is cleared, whoever else is pending.
PendingForgotten(S) == FALSE

\* OutputPending has become S: the flag goes with the last of it.
StillPending(S) == NewOutputPending /\ S # {}

WriteToClient(c, n) ==
    LET old == Len(sent[c])
        data == [i \in 1..n |-> Byte(c, old + i)]
        take == TakeOutput(c)
        full == Len(take.oco.buf) + n + Pad(n) > take.oco.size
    IN  /\ MayWrite /\ Connected(c)
        /\ old + n + Pad(n) <= MaxBytes
        /\ sent' = [sent EXCEPT ![c] = @ \o data \o Pads(Pad(n))]
        /\ freeOutputs' = take.free
        /\ IF full
           THEN /\ OutputPending' = OutputPending \ {fdOf[c]}
                /\ NewOutputPending' = StillPending(OutputPending')
                /\ output' = [output EXCEPT ![c] = take.oco]
                /\ flush' = [who |-> c, extra |-> data, written |-> 0,
                             todo |-> Len(take.oco.buf) + n + Pad(n)]
                /\ Call("writev")
           ELSE /\ NewOutputPending' = TRUE
                /\ OutputPending' = OutputPending \cup {fdOf[c]}
                /\ output' = [output EXCEPT ![c] =
                                 [take.oco EXCEPT !.buf = @ \o data \o Pads(Pad(n))]]
                /\ UNCHANGED <<flush, pc>>
        /\ UNCHANGED <<clientVars, ClientsWithInput, ClientsWriteBlocked,
                       AnyClientsWriteBlocked, newoutput, mask, closing, peerVars>>

\* No memory for a first buffer: the connection is given up.
WriteWithoutBuffer(c) ==
    /\ MayWrite /\ Connected(c) /\ "NoMemory" \in Faults
    /\ output[c] = NoOutput /\ freeOutputs = <<>>
    /\ MarkClientException(c)
    /\ UNCHANGED <<bufferVars, setVars, flagVars, threadVars, peerVars, sent>>

(***************************************************************************)
(* FlushClient, one action per outcome of writev.                          *)
(***************************************************************************)
Pending(c) == output[c].buf \o flush.extra \o Pads(Pad(Len(flush.extra)))
NotWritten == Len(Pending(flush.who)) - flush.written
Writing == At("writev") /\ NotWritten > 0
Space(c) == SockSize - Len(sock[c])
Lower(a, b) == IF a < b THEN a ELSE b

\* Some of what was offered is accepted.
Writev ==
    LET c == flush.who IN
    /\ Writing /\ trans[c] /\ peer[c] = "up"
    /\ \E len \in 1..Lower(flush.todo, Space(c)) :
        /\ sock' = [sock EXCEPT ![c] =
                       @ \o SubSeq(Pending(c), flush.written + 1, flush.written + len)]
        /\ flush' = [flush EXCEPT !.written = @ + len, !.todo = NotWritten - len]
    /\ UNCHANGED <<clientVars, bufferVars, setVars, flagVars, pc, newoutput, mask,
                   closing, received, peer, sent>>

\* A kernel that refuses what it cannot hold whole (EMSGSIZE): half as much
\* is offered.
WritevTooLong ==
    LET c == flush.who IN
    /\ Writing /\ trans[c] /\ peer[c] = "up"
    /\ "EMSGSIZE" \in Faults /\ flush.todo > 1 /\ flush.todo > Space(c)
    /\ flush' = [flush EXCEPT !.todo = @ \div 2]
    /\ UNCHANGED <<clientVars, bufferVars, setVars, flagVars, pc, newoutput, mask,
                   closing, peerVars, sent>>

\* (mutant of Rest) The caller's data is kept from its start.
RestFromStart(oco) ==
    SubSeq(oco.buf, flush.written + 1, Len(oco.buf))
        \o flush.extra \o Pads(Pad(Len(flush.extra)))

\* What the buffer holds after a write that stopped early: what was not
\* written of the buffer, then what was not written of the caller's data, at
\* the length the pads complete.
Rest(oco) ==
    LET inBuffer == flush.written < Len(oco.buf)
        kept == IF inBuffer THEN SubSeq(oco.buf, flush.written + 1, Len(oco.buf)) ELSE <<>>
        skip == IF inBuffer THEN 0 ELSE flush.written - Len(oco.buf)
        moved == kept \o SubSeq(flush.extra, skip + 1, Len(flush.extra))
    IN  moved \o Pads(NotWritten - Len(moved))

\* The client does not read: the rest is kept, in a larger buffer if need be.
WritevBlocked ==
    LET c == flush.who
        oco == output[c]
    IN  /\ Writing /\ trans[c] /\ peer[c] = "up"
        /\ Space(c) = 0
        /\ ClientsWriteBlocked' = ClientsWriteBlocked \cup {fdOf[c]}
        /\ AnyClientsWriteBlocked' = TRUE
        /\ \/ /\ output' = [output EXCEPT ![c] =
                    [size |-> IF NotWritten > oco.size THEN NotWritten + BUFSIZE ELSE oco.size,
                     buf |-> Rest(oco)]]
              /\ UNCHANGED clientVars
           \/ /\ NotWritten > oco.size /\ "NoMemory" \in Faults
              /\ MarkClientException(c)
              /\ output' = [output EXCEPT ![c].buf = <<>>]
        /\ flush' = NoFlush /\ Return
        /\ UNCHANGED <<freeOutputs, OutputPending, ClientsWithInput, NewOutputPending, newoutput, mask, closing, peerVars, sent>>

\* The connection is broken, or was closed by an earlier failure.
WritevFails ==
    LET c == flush.who IN
    /\ Writing
    /\ ~trans[c] \/ peer[c] = "down"
    /\ MarkClientException(c)
    /\ output' = [output EXCEPT ![c].buf = <<>>]
    /\ flush' = NoFlush /\ Return
    /\ UNCHANGED <<freeOutputs, setVars, flagVars, newoutput, mask, closing, peerVars, sent>>

\* Everything was flushed: the buffer goes back, unless it has grown too large.
FlushedOut ==
    LET c == flush.who IN
    /\ At("writev") /\ NotWritten = 0
    /\ IF AnyClientsWriteBlocked
       THEN /\ ClientsWriteBlocked' = ClientsWriteBlocked \ {fdOf[c]}
            /\ AnyClientsWriteBlocked' = (ClientsWriteBlocked' # {})
       ELSE UNCHANGED <<ClientsWriteBlocked, AnyClientsWriteBlocked>>
    /\ freeOutputs' = IF output[c].size > BUFWATERMARK THEN freeOutputs
                      ELSE <<output[c].size>> \o freeOutputs
    /\ output' = [output EXCEPT ![c] = NoOutput]
    /\ flush' = NoFlush /\ Return
    /\ UNCHANGED <<clientVars, OutputPending, ClientsWithInput, NewOutputPending, newoutput, mask, closing, peerVars, sent>>

FlushClient == Writev \/ WritevTooLong \/ WritevBlocked \/ WritevFails \/ FlushedOut

(***************************************************************************)
(* FlushAllOutput: its flag is read before the callbacks, the set emptied  *)
(* after them, and the clients with more input left for later.             *)
(***************************************************************************)
\* After a client's turn, and between two requests when critical output is
\* pending: no more is needed of the flag CriticalOutputPending.
FlushAllOutput ==
    /\ At("dispatch")
    /\ Call("callback") /\ newoutput' = NewOutputPending
    /\ UNCHANGED <<clientVars, bufferVars, setVars, flagVars, mask, flush, closing,
                   peerVars, sent>>

FlushBody ==
    /\ At("callback")
    /\ IF newoutput
       THEN /\ NewOutputPending' = FALSE
            /\ mask' = OutputPending /\ OutputPending' = {}
            /\ Goto("mask")
       ELSE /\ Return
            /\ UNCHANGED <<NewOutputPending, mask, OutputPending>>
    /\ newoutput' = FALSE
    /\ UNCHANGED <<clientVars, bufferVars, ClientsWithInput, ClientsWriteBlocked,
                   AnyClientsWriteBlocked, flush, closing, peerVars, sent>>

FlushNext ==
    LET f == LeastOf(mask)
        c == translation[f]
    IN  /\ At("mask") /\ mask # {}
        /\ mask' = mask \ {f}
        /\ IF c # NoConn /\ f \in ClientsWithInput
           THEN OutputPending' = OutputPending \cup {f} /\ NewOutputPending' = TRUE
           ELSE UNCHANGED <<OutputPending, NewOutputPending>>
        /\ IF c # NoConn /\ f \notin ClientsWithInput /\ output[c] # NoOutput
           THEN /\ flush' = [who |-> c, extra |-> <<>>, written |-> 0,
                             todo |-> Len(output[c].buf)]
                /\ Call("writev")
           ELSE UNCHANGED <<flush, pc>>
        /\ UNCHANGED <<clientVars, bufferVars, ClientsWithInput, ClientsWriteBlocked, AnyClientsWriteBlocked, newoutput,
                       closing, peerVars, sent>>

FlushEnds ==
    /\ At("mask") /\ mask = {} /\ Return
    /\ UNCHANGED <<clientVars, bufferVars, setVars, flagVars, newoutput, mask, flush,
                   closing, peerVars, sent>>

(***************************************************************************)
(* CloseDownClient, as far as the output goes: what is buffered is tried   *)
(* once more, then the descriptor leaves every set.                        *)
(***************************************************************************)
OpenFds == {fdOf[c] : c \in {d \in Conns : trans[d]}}
\* CheckConnections walks AllClients, which here holds the descriptor of
\* every connected client: nobody is ignored or waits for a grab.
IsBad(c) == Connected(c) /\ fdOf[c] \notin OpenFds

CloseDownClient(c) ==
    /\ Connected(c) /\ pc[1] \in {"dispatch", "establish", "check"}
    /\ pc[1] = "check" => IsBad(c)
    /\ closing' = c
    /\ IF output[c].buf # <<>>
       THEN /\ flush' = [who |-> c, extra |-> <<>>, written |-> 0,
                         todo |-> Len(output[c].buf)]
            /\ pc' = <<"writev", "close">> \o pc
       ELSE Call("close") /\ UNCHANGED flush
    /\ UNCHANGED <<clientVars, bufferVars, setVars, flagVars, newoutput, mask,
                   peerVars, sent>>

\* FreeOsBuffers: a buffer is kept only when the free list is empty.
FreeOsBuffers(c) ==
    /\ output' = [output EXCEPT ![c] = NoOutput]
    /\ freeOutputs' = IF output[c] # NoOutput /\ freeOutputs = <<>>
                      THEN <<output[c].size>> ELSE freeOutputs

\* (mutant of ForgetFd) The blocked clients are left as they are.
ForgetFdBlocked(f) ==
    /\ ClientsWithInput' = ClientsWithInput \ {f}
    /\ OutputPending' = OutputPending \ {f}
    /\ UNCHANGED <<ClientsWriteBlocked, flagVars>>

\* CloseDownFileDescriptor, whatever connection the number now stands for.
ForgetFd(f) ==
    /\ ClientsWithInput' = ClientsWithInput \ {f}
    /\ ClientsWriteBlocked' = ClientsWriteBlocked \ {f}
    /\ AnyClientsWriteBlocked' = (AnyClientsWriteBlocked /\ ClientsWriteBlocked' # {})
    /\ OutputPending' = OutputPending \ {f}
    /\ UNCHANGED NewOutputPending

CloseDownFileDescriptor ==
    /\ At("close")
    /\ status' = [status EXCEPT ![closing] = "gone"]
    /\ trans' = [trans EXCEPT ![closing] = FALSE]
    /\ translation' = [translation EXCEPT ![fdOf[closing]] = NoConn]
    /\ ForgetFd(fdOf[closing]) /\ FreeOsBuffers(closing)
    /\ closing' = NoConn /\ Return
    /\ UNCHANGED <<fdOf, newoutput, mask, flush, peerVars, sent>>

(***************************************************************************)
(* New connections: stragglers are closed down, then the descriptor the    *)
(* kernel returns, the lowest free one, may still belong to a client whose *)
(* transport was closed in the meantime.                                   *)
(***************************************************************************)
EstablishNewConnections ==
    /\ At("wait") /\ \E c \in Conns : status[c] = "unused"
    /\ pc' = <<"establish", "block">>
    /\ UNCHANGED <<clientVars, bufferVars, setVars, flagVars, newoutput, mask, flush,
                   closing, peerVars, sent>>

NextConn == LeastOf({c \in Conns : status[c] = "unused"})

\* The client the number is still registered for is closed down first.
CloseReused ==
    LET f == LeastOf(Fds \ OpenFds) IN
    /\ At("establish") /\ Fds \ OpenFds # {}
    /\ translation[f] # NoConn
    /\ CloseDownClient(translation[f])

Accept ==
    LET f == LeastOf(Fds \ OpenFds)
        c == NextConn
    IN  /\ At("establish") /\ Fds \ OpenFds # {}
        /\ translation[f] = NoConn
        /\ status' = [status EXCEPT ![c] = "running"]
        /\ fdOf' = [fdOf EXCEPT ![c] = f]
        /\ trans' = [trans EXCEPT ![c] = TRUE]
        /\ translation' = [translation EXCEPT ![f] = c]
        /\ Return
        /\ UNCHANGED <<bufferVars, setVars, flagVars, newoutput, mask, flush, closing,
                       peerVars, sent>>

\* No descriptor is left, or the peer has gone already.
AcceptFails ==
    /\ At("establish")
    /\ Return
    /\ UNCHANGED <<clientVars, bufferVars, setVars, flagVars, newoutput, mask, flush,
                   closing, peerVars, sent>>

(***************************************************************************)
(* WaitForSomething.                                                       *)
(***************************************************************************)
Wait ==
    /\ At("dispatch") /\ Goto("wait")
    /\ UNCHANGED <<clientVars, bufferVars, setVars, flagVars, newoutput, mask, flush,
                   closing, peerVars, sent>>

\* All that is pending is flushed before the server sleeps.
BlockHandler ==
    /\ pc[1] \in {"wait", "block"}
    /\ IF NewOutputPending
       THEN pc' = <<"callback", "select">> /\ newoutput' = TRUE
       ELSE pc' = <<"select">> /\ UNCHANGED newoutput
    /\ UNCHANGED <<clientVars, bufferVars, setVars, flagVars, mask, flush, closing,
                   peerVars, sent>>

Writable == {f \in ClientsWriteBlocked :
                LET c == translation[f] IN
                c # NoConn /\ (Space(c) > 0 \/ peer[c] = "down")}

\* (mutant of Resume) The flag that has the set looked at is not raised.
ResumeQuietly(W) ==
    /\ OutputPending' = OutputPending \cup W
    /\ UNCHANGED NewOutputPending

\* The descriptors W have become writable.
Resume(W) ==
    /\ OutputPending' = OutputPending \cup W
    /\ NewOutputPending' = TRUE

\* select returns: the writable ones among the blocked clients are put back
\* into OutputPending, and the loop goes on or hands clients to Dispatch.
Select ==
    /\ At("select") /\ ~\E c \in Conns : IsBad(c)
    /\ IF AnyClientsWriteBlocked /\ Writable # {}
       THEN /\ Resume(Writable)
            /\ ClientsWriteBlocked' = ClientsWriteBlocked \ Writable
            /\ AnyClientsWriteBlocked' = (ClientsWriteBlocked' # {})
            /\ Goto("wait") \/ Goto("dispatch")
       ELSE /\ UNCHANGED <<NewOutputPending, OutputPending, ClientsWriteBlocked,
                           AnyClientsWriteBlocked>>
            /\ Goto("dispatch")
    /\ UNCHANGED <<clientVars, bufferVars, ClientsWithInput,
                   newoutput, mask, flush, closing, peerVars, sent>>

\* A descriptor closed by a failed write makes select fail with EBADF.
SelectFails ==
    /\ At("select") /\ \E c \in Conns : IsBad(c)
    /\ Goto("check")
    /\ UNCHANGED <<clientVars, bufferVars, setVars, flagVars, newoutput, mask, flush,
                   closing, peerVars, sent>>

Checked ==
    /\ At("check") /\ ~\E c \in Conns : IsBad(c)
    /\ Goto("wait")
    /\ UNCHANGED <<clientVars, bufferVars, setVars, flagVars, newoutput, mask, flush,
                   closing, peerVars, sent>>

(***************************************************************************)
(* Requests: a client may have more of them buffered, or none.             *)
(***************************************************************************)
SetInput(c, more) ==
    /\ At("dispatch") /\ Connected(c)
    /\ (fdOf[c] \in ClientsWithInput) # more
    /\ ClientsWithInput' = IF more THEN ClientsWithInput \cup {fdOf[c]}
                           ELSE ClientsWithInput \ {fdOf[c]}
    /\ UNCHANGED <<clientVars, bufferVars, OutputPending, ClientsWriteBlocked, flagVars,
                   threadVars, peerVars, sent>>

\* The screen saver gives the free buffers back.
ResetOsBuffers ==
    /\ At("dispatch") /\ freeOutputs # <<>>
    /\ freeOutputs' = <<>>
    /\ UNCHANGED <<clientVars, output, setVars, flagVars, threadVars, peerVars, sent>>

(***************************************************************************)
(* The peers.                                                              *)
(***************************************************************************)
PeerReads(c) ==
    /\ sock[c] # <<>> /\ peer[c] = "up"
    /\ received' = [received EXCEPT ![c] = Append(@, Head(sock[c]))]
    /\ sock' = [sock EXCEPT ![c] = Tail(@)]
    /\ UNCHANGED <<clientVars, bufferVars, setVars, flagVars, threadVars, peer, sent>>

PeerCloses(c) ==
    /\ "PeerCloses" \in Faults /\ status[c] # "unused" /\ peer[c] = "up"
    /\ Cardinality({d \in Conns : peer[d] = "down"}) < MaxDown
    /\ peer' = [peer EXCEPT ![c] = "down"]
    /\ UNCHANGED <<clientVars, bufferVars, setVars, flagVars, threadVars, sock,
                   received, sent>>

----------------------------------------------------------------------------
Flushing == FlushBody \/ FlushNext \/ FlushEnds \/ FlushClient
Closing == \/ CloseDownFileDescriptor
           \/ At("check") /\ \E c \in Conns : CloseDownClient(c)
Sleeping == BlockHandler \/ Select \/ SelectFails \/ Checked
Connecting == EstablishNewConnections \/ CloseReused \/ Accept \/ AcceptFails

Next ==
    \/ \E c \in Conns, n \in Counts : WriteToClient(c, n)
    \/ \E c \in Conns : WriteWithoutBuffer(c)
    \/ \E c \in Conns : CloseDownClient(c)
    \/ \E c \in Conns, more \in BOOLEAN : SetInput(c, more)
    \/ \E c \in Conns : PeerReads(c) \/ PeerCloses(c)
    \/ FlushAllOutput \/ ResetOsBuffers
    \/ Wait \/ Flushing \/ CloseDownFileDescriptor \/ Sleeping \/ Connecting

Spec == Init /\ [][Next]_vars

\* The thread goes on with what it has begun; a round of Dispatch serves at
\* most the clients WaitForSomething returned and so comes to an end, however
\* often it flushes; peers read what the kernel holds for them.
FairSpec ==
    /\ Spec
    /\ SF_vars(Wait)
    /\ WF_vars(Flushing) /\ WF_vars(Closing) /\ WF_vars(Sleeping)
    /\ WF_vars(Accept \/ AcceptFails \/ CloseReused)
    /\ \A c \in Conns : WF_vars(PeerReads(c))

(***************************************************************************)
(* Properties.                                                             *)
(***************************************************************************)
Values == 0..((MaxConns + 1) * (MaxBytes + 1))
Labels == {"dispatch", "callback", "mask", "writev", "close", "establish", "wait", "block",
           "select", "check"}

\* Every variable has its type: what the C declarations say, and the range
\* of the values the functions of io.c put there.
TypeOK ==
    /\ status \in [Conns -> {"unused", "running", "exception", "gone"}]
    /\ fdOf \in [Conns -> Fds \cup {NoFd}] /\ trans \in [Conns -> BOOLEAN]
    /\ output \in [Conns -> [size : Nat, buf : Seq(Values)]]
    /\ freeOutputs \in Seq(Nat) /\ translation \in [Fds -> Conns \cup {NoConn}]
    /\ OutputPending \subseteq Fds /\ ClientsWithInput \subseteq Fds
    /\ ClientsWriteBlocked \subseteq Fds /\ mask \subseteq Fds
    /\ {NewOutputPending, AnyClientsWriteBlocked, newoutput}
           \subseteq BOOLEAN
    /\ pc \in Seq(Labels) /\ pc # <<>>
    /\ flush \in [who : Conns \cup {NoConn}, extra : Seq(Values), written : Nat, todo : Nat]
    /\ closing \in Conns \cup {NoConn}
    /\ {sock, received, sent} \subseteq [Conns -> Seq(Values)]
    /\ peer \in [Conns -> {"up", "down"}]

\* What the server still has to write for c.
Unwritten(c) ==
    IF At("writev") /\ flush.who = c
    THEN SubSeq(Pending(c), flush.written + 1, Len(Pending(c)))
    ELSE output[c].buf

\* As long as a connection is open, what its peer has read, what the kernel
\* holds and what is buffered are together exactly what was written, pads
\* included: a write that stops in the buffer, in the caller's data or in
\* its pads loses, repeats and reorders nothing (FlushClient).
StreamInv ==
    /\ TypeOK
    /\ \A c \in Conns : trans[c] => received[c] \o sock[c] \o Unwritten(c) = sent[c]

\* A buffered byte always has something that will write it: the descriptor
\* is in OutputPending with NewOutputPending set, or among the blocked ones
\* with AnyClientsWriteBlocked set, or the flush under way has yet to come
\* to it (WriteToClient clears both flags when it empties the set).
Scheduled(c) ==
    \/ fdOf[c] \in OutputPending /\ NewOutputPending
    \/ fdOf[c] \in ClientsWriteBlocked /\ AnyClientsWriteBlocked
    \/ fdOf[c] \in mask
    \/ flush.who = c
    \/ closing = c
OutputScheduled ==
    \A c \in Conns : trans[c] /\ output[c].buf # <<>> => Scheduled(c)

\* A descriptor number stands for one client only: the one it is registered
\* for is the one that holds it, and a number that is registered for nobody
\* is in none of the sets, although the kernel reuses numbers as soon as a
\* failed write has closed them (FlushClient, EstablishNewConnections).
FdsBelong ==
    /\ \A c \in Conns : Connected(c) <=> (fdOf[c] # NoFd /\ status[c] # "gone"
                                           /\ translation[fdOf[c]] = c)
    /\ \A f \in Fds : translation[f] = NoConn =>
          f \notin OutputPending \cup ClientsWithInput \cup ClientsWriteBlocked

\* What is written for a client that does not keep the server busy with
\* requests arrives, or the connection is lost: nothing stays in a buffer
\* because a flag was cleared or a descriptor dropped from a set.
Lost(c) == ~trans[c] \/ peer[c] = "down"
Arrived(c) == received[c] = sent[c]
Delivered ==
    \A c \in Conns :
        <>[](fdOf[c] \notin ClientsWithInput) => []<>(Arrived(c) \/ Lost(c))
================================================================================
