------------------------------ MODULE Messages ------------------------------
(***************************************************************************)
(* Messages between processes (src/Network/IPC.cc, NetworkKit/IPC.h): a    *)
(* process constructs a packet, writes its fields, passes its data to the  *)
(* packet of another one and has a packet sanitised.  What the kernel says *)
(* of a process here it says of the current one, which need not be the one *)
(* that calls (see ProcessTeam).  And the check of an IP address           *)
(* (src/Network/IP.cc).                                                    *)
(***************************************************************************)
EXTENDS Naturals, Sequences, FiniteSets

CONSTANTS
    Senders,        \* process ids
    PacketSizes,    \* values a process may put into IpcPacketSize
    DataSizes,      \* values for IpcMsgSz
    FieldWrites,    \* bound: fields the processes write
    IpLength        \* length of the longest address text
ASSUME SendersAreIds ==
    /\ Senders \subseteq Nat /\ PacketSizes \subseteq Nat /\ DataSizes \subseteq Nat
    /\ FieldWrites \in Nat

kIPCMsgSize == 6094
\* sizeof(IPCMessage), which is packed: the data and a header of 57 bytes.
SizeOfMessage == 57 + kIPCMsgSize
Endians == {"little", "big", "mixed"}
Fields == {"magic", "endian", "size", "from", "to", "msgSz"}

VARIABLES
    packet,     \* every process's packet, or NoPacket
    mCurrentProcess, \* the current process: at most one
    crashed,    \* whether the current process was crashed
    written,    \* fields written so far
    received,   \* the addressees of what was passed into a process's packet
    spilt,      \* a pass that went past the data: from whose packet into whose
    kernel,     \* the kernel runs on, or read address 0 and faulted
    ip          \* a text, its characters told apart as dots and others

messageVars ==
    <<packet, mCurrentProcess, crashed, written, received, spilt, kernel, ip>>

\* changed are the fields the process has written since the construction.
NoPacket == [magic |-> FALSE, endian |-> "none", size |-> 0, from |-> 0, to |-> 0, msgSz |-> 0,
             made |-> FALSE, changed |-> {}]

\* IpTexts: an empty text is read past its end and is left out.
IpTexts == UNION {[1 .. n -> {"dot", "other"}] : n \in 1 .. IpLength}

MessagesInit ==
    /\ packet = [p \in Senders |-> NoPacket]
    /\ mCurrentProcess \in {{}} \cup {{p} : p \in Senders}
    /\ crashed = FALSE /\ written = 0
    /\ received = [p \in Senders |-> {}] /\ spilt = {}
    /\ kernel = "runs"
    /\ ip \in IpTexts

\* Behind a copy past the data, and behind a fault, nothing more is followed.
Running(p) == kernel = "runs" /\ spilt = {} /\ (crashed => p \notin mCurrentProcess)

\* rtl_deduce_endianess compares the first byte of the packet with itself.
Deduced == "big"

\* The id of the current process; without one, what lies near address 0.
CurrentIds == IF mCurrentProcess = {} THEN Senders ELSE mCurrentProcess

\* ipc_construct_packet by p; team and receiver are 0.
ConstructPacket(p) ==
    /\ Running(p) /\ ~packet[p].made
    /\ \/ mCurrentProcess = {} /\ kernel' = "fault" /\ UNCHANGED packet
       \/ /\ \E c \in CurrentIds :
               packet' = [packet EXCEPT ![p] =
                 [magic |-> TRUE, endian |-> Deduced, size |-> SizeOfMessage,
                  from |-> c, to |-> 0, msgSz |-> 0, made |-> TRUE, changed |-> {}]]
          /\ UNCHANGED kernel
    /\ UNCHANGED <<mCurrentProcess, crashed, written, received, spilt, ip>>

\* What a process may write into a field.
FieldValues(f) ==
    CASE f = "magic"  -> BOOLEAN
      [] f = "endian" -> Endians
      [] f = "size"   -> PacketSizes
      [] f = "msgSz"  -> DataSizes
      [] OTHER        -> Senders

\* The process writes a field of its packet; all of them are plain members.
Fill(p, f) ==
    /\ Running(p) /\ packet[p].made /\ written < FieldWrites
    /\ \E v \in FieldValues(f) :
         packet' = [packet EXCEPT ![p] = [packet[p] EXCEPT ![f] = v, !.changed = @ \cup {f}]]
    /\ written' = written + 1
    /\ UNCHANGED <<mCurrentProcess, crashed, received, spilt, kernel, ip>>

EndianMatches(k) ==
    CASE Deduced = "big"    -> k.endian # "little"
      [] Deduced = "little" -> k.endian # "big"
      [] OTHER              -> k.endian # "mixed"

SaneNoLoop(k) == EndianMatches(k) /\ k.size <= kIPCMsgSize /\ k.size > 1 /\ k.magic

\* ipc_int_sanitize_packet
Sane(k) ==
    /\ EndianMatches(k)
    /\ k.from # k.to /\ k.size <= kIPCMsgSize
    /\ k.size > 1 /\ k.magic

\* ipc_sanitize_packet by p of q's packet: on failure the current process, which
\* need not be p nor q, crashes if its status is that of a running one; without
\* a current process the status is read near address 0.
Sanitize(p, q) ==
    /\ Running(p) /\ packet[q].made /\ ~Sane(packet[q])
    /\ \/ mCurrentProcess = {} /\ kernel' = "fault" /\ UNCHANGED crashed
       \/ crashed' \in {crashed, mCurrentProcess # {}} /\ UNCHANGED kernel
    /\ UNCHANGED <<packet, mCurrentProcess, written, received, spilt, ip>>

\* IPCMessage::Pass: the data of p's packet goes into q's, whose sender it names.
MayPass(k, target) == target.from = k.to /\ k.msgSz <= target.msgSz

Pass(p, q) ==
    /\ Running(p) /\ packet[p].made /\ packet[q].made
    /\ MayPass(packet[p], packet[q]) /\ packet[p].msgSz > 0
    /\ received' = [received EXCEPT ![q] = @ \cup {packet[p].to}]
    /\ spilt' = IF packet[p].msgSz > kIPCMsgSize THEN {<<p, q>>} ELSE spilt
    /\ UNCHANGED <<packet, mCurrentProcess, crashed, written, kernel, ip>>

MessagesNext ==
    \E p \in Senders : \/ ConstructPacket(p)
                       \/ \E f \in Fields : Fill(p, f)
                       \/ \E q \in Senders : Sanitize(p, q) \/ Pass(p, q)
-----------------------------------------------------------------------------
\* IpCheckVersion4: the count of characters since the last dot.  A text is
\* refused at the fourth.
Run(t, i) == {j \in 1 .. i : \A k \in j .. i : t[k] = "other"}

IpCheckVersion4(t) == \A i \in DOMAIN t : \A j \in Run(t, i) : i - j < 3

-----------------------------------------------------------------------------
MessagesTypeOK ==
    /\ mCurrentProcess \subseteq Senders /\ crashed \in BOOLEAN /\ kernel \in {"runs", "fault"}
    /\ received \in [Senders -> SUBSET (Senders \cup {0})] /\ spilt \subseteq Senders \X Senders
    /\ \A p \in Senders : /\ packet[p].from \in Senders \cup {0} /\ packet[p].changed \subseteq Fields
                           /\ packet[p].endian \in Endians \cup {"none"}

\* The constructor (IPC.cc:76) and the check (:41) do not agree on what a packet
\* is: one that is sane has had its size replaced by its process, and when the
\* current process has the id 0 one of its addresses too.
SaneTakesWork ==
    \A p \in Senders : packet[p].made /\ Sane(packet[p]) =>
        /\ "size" \in packet[p].changed
        /\ mCurrentProcess = {0} => {"from", "to"} \cap packet[p].changed # {}

\* A packet the check lets through is not one that Pass (IPC.h:80) would copy
\* onto itself, whatever its process has written into it.
NoEcho == \A p \in Senders : Sane(packet[p]) => ~MayPass(packet[p], packet[p])

\* Pass (IPC.h:85) copies past the data of a packet only when both processes
\* have written sizes beyond it: however the others fill in theirs, a process
\* that never announces more than there is has nothing written behind its
\* packet.  Neither Pass nor the check compares a size with the data.
StaysInside ==
    \A x \in spilt : \A p \in {x[1], x[2]} :
        packet[p].msgSz > kIPCMsgSize /\ "msgSz" \in packet[p].changed

\* Data arrives in the packets that name its addressee as their sender (IPC.h:82).
\* As constructed a packet names the current process, whoever made it (IPC.cc:103):
\* unless its process has written another sender into it, nothing gets there
\* but what is meant for the current process.
ForTheCurrent ==
    \A q \in Senders : received[q] # {} /\ "from" \notin packet[q].changed /\ mCurrentProcess # {}
        => received[q] = mCurrentProcess

\* Addresses of four groups of one to three characters pass IpCheckVersion4
\* (IP.cc:105); what it refuses has a group of four.
IpAccepted ==
    IpCheckVersion4(ip) <=> ~\E i \in 1 .. Len(ip) - 3 : \A k \in i .. i + 3 : ip[k] = "other"
=============================================================================
