---------------------------- MODULE ServicesProofs ---------------------------
(***************************************************************************)
(* Proofs about the services of the kernel.  A service acts only in the    *)
(* behaviours that are about it and rests in the others, so each has an    *)
(* inductive invariant of its own, and a lemma that no step of MCServices  *)
(* breaks it; the properties follow from these invariants.                 *)
(***************************************************************************)
EXTENDS MCServices, TLAPS, FiniteSetTheorems, SequenceTheorems,
        WellFoundedInduction

-----------------------------------------------------------------------------
(***************************************************************************)
(* Messages and addresses                                                  *)
(***************************************************************************)

Packets == [magic : BOOLEAN, endian : Endians \cup {"none"}, size : Nat,
            from : Senders \cup {0}, to : Senders \cup {0}, msgSz : Nat,
            made : BOOLEAN, changed : SUBSET Fields]

\* What a process has not written is as ipc_construct_packet left it.
AsMade(k) ==
    /\ k.made /\ "size" \notin k.changed => k.size = SizeOfMessage
    /\ k.made /\ "to" \notin k.changed => k.to = 0
    /\ k.made /\ "from" \notin k.changed /\ mCurrentProcess # {} => mCurrentProcess = {k.from}
    /\ k.made /\ "msgSz" \notin k.changed => k.msgSz = 0

MessagesInv ==
    /\ packet \in [Senders -> Packets] /\ \A p \in Senders : AsMade(packet[p])
    /\ \A p \in Senders : ~packet[p].made => packet[p].changed = {}
    /\ mCurrentProcess \subseteq Senders
    /\ \A c \in mCurrentProcess : mCurrentProcess = {c}
    /\ crashed \in BOOLEAN /\ kernel \in {"runs", "fault"} /\ ip \in IpTexts
    /\ received \in [Senders -> SUBSET (Senders \cup {0})]
    /\ spilt \subseteq Senders \X Senders
    /\ StaysInside /\ ForTheCurrent

LEMMA MessagesBegin == MessagesInit => MessagesInv
  <1> SUFFICES ASSUME MessagesInit PROVE MessagesInv
    OBVIOUS
  <1>1. NoPacket \in Packets /\ ~NoPacket.made /\ NoPacket.changed = {}
    BY DEF NoPacket, Packets
  <1>2. /\ packet \in [Senders -> Packets] /\ \A p \in Senders : AsMade(packet[p])
        /\ \A p \in Senders : ~packet[p].made => packet[p].changed = {}
    BY <1>1 DEF MessagesInit, AsMade
  <1>3. received \in [Senders -> SUBSET (Senders \cup {0})] /\ \A p \in Senders : received[p] = {}
    BY DEF MessagesInit
  <1>4. StaysInside /\ ForTheCurrent
    BY <1>3 DEF MessagesInit, StaysInside, ForTheCurrent
  <1> QED
    BY <1>2, <1>3, <1>4 DEF MessagesInit, MessagesInv

\* One packet changes, and keeps what the invariant says of it.
LEMMA OnePacket ==
  ASSUME MessagesInv, NEW p \in Senders, NEW k \in Packets,
         packet' = [packet EXCEPT ![p] = k], AsMade(k), k.made, packet[p].changed \subseteq k.changed,
         UNCHANGED <<mCurrentProcess, crashed, received, spilt, ip>>,
         spilt = {}, kernel' \in {"runs", "fault"}
  PROVE  MessagesInv'
  <1>1. packet' \in [Senders -> Packets]
    BY DEF MessagesInv
  <1>2. \A q \in Senders : packet'[q] = IF q = p THEN k ELSE packet[q]
    BY DEF MessagesInv
  <1>3. \A q \in Senders : AsMade(packet'[q])
    BY <1>2 DEF MessagesInv
  <1>4. (\A q \in Senders : AsMade(packet[q]))'
    BY <1>3 DEF AsMade
  <1>5. StaysInside'
    BY DEF StaysInside
  <1>6. ForTheCurrent'
    <2> SUFFICES ASSUME NEW q \in Senders, received[q] # {}, "from" \notin packet'[q].changed,
                        mCurrentProcess # {}
                 PROVE  received[q] = mCurrentProcess
      BY DEF ForTheCurrent
    <2>1. "from" \notin packet[q].changed
      BY <1>2
    <2> QED
      BY <2>1 DEF MessagesInv, ForTheCurrent
  <1> QED
    BY <1>1, <1>4, <1>5, <1>6 DEF MessagesInv

LEMMA ConstructKeeps ==
  ASSUME MessagesInv, NEW p \in Senders, ConstructPacket(p)
  PROVE  MessagesInv'
  <1>1. CASE packet' = packet
    <2>1. UNCHANGED <<packet, mCurrentProcess, crashed, received, spilt, ip>>
      BY <1>1 DEF ConstructPacket
    <2>2. kernel' \in {"runs", "fault"}
      BY DEF ConstructPacket, MessagesInv
    <2> QED
      BY <2>1, <2>2 DEF MessagesInv, AsMade, StaysInside, ForTheCurrent
  <1>2. CASE packet' # packet
    <2>1. PICK c \in CurrentIds :
            packet' = [packet EXCEPT ![p] =
                 [magic |-> TRUE, endian |-> Deduced, size |-> SizeOfMessage,
                  from |-> c, to |-> 0, msgSz |-> 0, made |-> TRUE, changed |-> {}]]
      BY <1>2 DEF ConstructPacket
    <2> DEFINE k == [magic |-> TRUE, endian |-> Deduced, size |-> SizeOfMessage,
                     from |-> c, to |-> 0, msgSz |-> 0, made |-> TRUE, changed |-> {}]
    <2>2. c \in Senders /\ (mCurrentProcess # {} => mCurrentProcess = {c})
      BY DEF CurrentIds, MessagesInv
    <2>3. k \in Packets
      BY <2>2 DEF Packets, Deduced, Endians, SizeOfMessage, kIPCMsgSize
    <2>4. AsMade(k)
      BY <2>2 DEF AsMade
    <2>5. packet[p].changed = {} /\ k.made
      BY DEF ConstructPacket, MessagesInv
    <2>6. packet' = [packet EXCEPT ![p] = k]
      BY <2>1
    <2> HIDE DEF k
    <2> QED
      BY <2>3, <2>4, <2>5, <2>6, OnePacket DEF ConstructPacket, Running, MessagesInv
  <1> QED
    BY <1>1, <1>2

LEMMA FillKeeps ==
  ASSUME MessagesInv, NEW p \in Senders, NEW f \in Fields, Fill(p, f)
  PROVE  MessagesInv'
  <1>1. PICK v \in FieldValues(f) :
            packet' = [packet EXCEPT ![p] = [packet[p] EXCEPT ![f] = v, !.changed = @ \cup {f}]]
    BY DEF Fill
  <1> DEFINE r == packet[p]
             k == [r EXCEPT ![f] = v, !.changed = @ \cup {f}]
  <1>2. r \in Packets /\ AsMade(r)
    BY DEF MessagesInv
  <1>3. packet' = [packet EXCEPT ![p] = k]
    BY <1>1
  <1> HIDE DEF r
  <1>4. k.made
    BY <1>2 DEF Packets, Fields, Fill, r
  <1>5. k \in Packets /\ AsMade(k) /\ r.changed \subseteq k.changed
    <2>1. CASE f = "magic"
      <3>1. v \in BOOLEAN
        BY <2>1 DEF FieldValues
      <3> QED
        BY <1>2, <2>1, <3>1 DEF Packets, AsMade, Fields
    <2>2. CASE f = "endian"
      <3>1. v \in Endians
        BY <2>2 DEF FieldValues
      <3> QED
        BY <1>2, <2>2, <3>1 DEF Packets, AsMade, Fields
    <2>3. CASE f = "size"
      <3>1. v \in Nat
        BY <2>3, SendersAreIds DEF FieldValues
      <3> QED
        BY <1>2, <2>3, <3>1 DEF Packets, AsMade, Fields
    <2>4. CASE f = "from"
      <3>1. v \in Senders
        BY <2>4 DEF FieldValues
      <3> QED
        BY <1>2, <2>4, <3>1 DEF Packets, AsMade, Fields
    <2>5. CASE f = "to"
      <3>1. v \in Senders
        BY <2>5 DEF FieldValues
      <3> QED
        BY <1>2, <2>5, <3>1 DEF Packets, AsMade, Fields
    <2>6. CASE f = "msgSz"
      <3>1. v \in Nat
        BY <2>6, SendersAreIds DEF FieldValues
      <3> QED
        BY <1>2, <2>6, <3>1 DEF Packets, AsMade, Fields
    <2> QED
      BY <2>1, <2>2, <2>3, <2>4, <2>5, <2>6 DEF Fields
  <1> HIDE DEF k
  <1> QED
    BY <1>3, <1>4, <1>5, OnePacket DEF Fill, Running, MessagesInv, r

LEMMA SanitizeKeeps ==
  ASSUME MessagesInv, NEW p \in Senders, NEW q \in Senders, Sanitize(p, q)
  PROVE  MessagesInv'
  <1>1. UNCHANGED <<packet, mCurrentProcess, received, spilt, ip>> /\ kernel' \in {"runs", "fault"}
    BY DEF Sanitize, MessagesInv
  <1>2. crashed' \in BOOLEAN
    BY DEF Sanitize, MessagesInv
  <1> QED
    BY <1>1, <1>2 DEF MessagesInv, AsMade, StaysInside, ForTheCurrent

LEMMA PassKeeps ==
  ASSUME MessagesInv, NEW p \in Senders, NEW q \in Senders, Pass(p, q)
  PROVE  MessagesInv'
  <1>1. UNCHANGED <<packet, mCurrentProcess, crashed, kernel, ip>> /\ spilt = {}
    BY DEF Pass, Running
  <1>2. /\ packet[p] \in Packets /\ packet[q] \in Packets
        /\ AsMade(packet[p]) /\ AsMade(packet[q]) /\ packet[p].made /\ packet[q].made
    BY DEF Pass, MessagesInv
  <1>3. packet[q].from = packet[p].to /\ packet[p].msgSz <= packet[q].msgSz
    BY DEF Pass, MayPass
  <1>4. /\ received' \in [Senders -> SUBSET (Senders \cup {0})]
        /\ \A r \in Senders : received'[r] = IF r = q THEN received[q] \cup {packet[p].to}
                                                      ELSE received[r]
    <2>1. packet[p].to \in Senders \cup {0}
      BY <1>2 DEF Packets
    <2> QED
      BY <2>1 DEF Pass, MessagesInv
  <1>5. ForTheCurrent'
    <2> SUFFICES ASSUME NEW r \in Senders, received'[r] # {}, "from" \notin packet[r].changed,
                        mCurrentProcess # {}
                 PROVE  received'[r] = mCurrentProcess
      BY <1>1 DEF ForTheCurrent
    <2>1. received[r] = {} \/ received[r] = mCurrentProcess
      BY DEF MessagesInv, ForTheCurrent
    <2>2. CASE r # q
      BY <1>4, <2>1, <2>2
    <2>3. CASE r = q
      BY <1>2, <1>3, <1>4, <2>1, <2>3 DEF AsMade
    <2> QED
      BY <2>2, <2>3
  <1>6. spilt' \subseteq Senders \X Senders /\ StaysInside'
    <2>1. CASE packet[p].msgSz > kIPCMsgSize
      <3>1. spilt' = {<<p, q>>}
        BY <2>1 DEF Pass
      <3>2. packet[q].msgSz > kIPCMsgSize
        BY <1>2, <1>3, <2>1 DEF Packets, kIPCMsgSize
      <3>3. "msgSz" \in packet[p].changed /\ "msgSz" \in packet[q].changed
        BY <1>2, <2>1, <3>2 DEF AsMade, kIPCMsgSize
      <3> QED
        BY <1>1, <2>1, <3>1, <3>2, <3>3 DEF StaysInside
    <2>2. CASE ~(packet[p].msgSz > kIPCMsgSize)
      BY <1>1, <2>2 DEF Pass, StaysInside
    <2> QED
      BY <2>1, <2>2
  <1> QED
    BY <1>1, <1>4, <1>5, <1>6 DEF MessagesInv, AsMade

LEMMA MessagesKept == MessagesInv /\ [Next]_vars => MessagesInv'
  <1> SUFFICES ASSUME MessagesInv, [Next]_vars PROVE MessagesInv'
    OBVIOUS
  <1>1. CASE UNCHANGED messageVars
    BY <1>1 DEF messageVars, MessagesInv, AsMade, StaysInside, ForTheCurrent
  <1>2. CASE MessagesNext
    BY <1>2, ConstructKeeps, FillKeeps, SanitizeKeeps, PassKeeps DEF MessagesNext
  <1>3. MessagesNext \/ UNCHANGED messageVars
    BY DEF Next, vars
  <1> QED
    BY <1>1, <1>2, <1>3

\* What the check of IPC.cc:41 lets through has a size that the constructor
\* (IPC.cc:76) did not give it, and two addresses.
LEMMA SaneIs ==
  ASSUME MessagesInv, NEW p \in Senders, Sane(packet[p]), packet[p].made
  PROVE  /\ "size" \in packet[p].changed
         /\ mCurrentProcess = {0} => {"from", "to"} \cap packet[p].changed # {}
  <1>1. AsMade(packet[p]) /\ packet[p] \in Packets
    BY DEF MessagesInv
  <1>2. packet[p].size <= 6094 /\ packet[p].from # packet[p].to
    BY DEF Sane, kIPCMsgSize
  <1>3. "size" \in packet[p].changed
    <2>1. packet[p].size # SizeOfMessage
      BY <1>1, <1>2 DEF Packets, SizeOfMessage, kIPCMsgSize
    <2> QED
      BY <1>1, <2>1 DEF AsMade
  <1>4. ASSUME mCurrentProcess = {0} PROVE {"from", "to"} \cap packet[p].changed # {}
    BY <1>1, <1>2, <1>4 DEF AsMade
  <1> QED
    BY <1>3, <1>4

\* What IpCheckVersion4 (IP.cc:105) refuses are exactly the texts with four
\* characters in a row that are no dots, whatever their length.
LEMMA AddressesExact ==
  ASSUME NEW t, t \in IpTexts
  PROVE  IpCheckVersion4(t) <=> ~\E i \in 1 .. Len(t) - 3 : \A k \in i .. i + 3 : t[k] = "other"
  <1>1. PICK n \in 1 .. IpLength : t \in [1 .. n -> {"dot", "other"}]
    BY DEF IpTexts
  <1>2. n \in Nat \ {0}
    OBVIOUS
  <1>3. t \in Seq({"dot", "other"}) /\ Len(t) = n /\ DOMAIN t = 1 .. n
    BY <1>1, <1>2
  <1>4. ASSUME IpCheckVersion4(t), NEW i \in 1 .. n - 3, \A k \in i .. i + 3 : t[k] = "other"
        PROVE  FALSE
    <2>1. i \in Run(t, i + 3) /\ i + 3 \in DOMAIN t
      BY <1>2, <1>3, <1>4 DEF Run
    <2> QED
      BY <1>4, <2>1 DEF IpCheckVersion4
  <1>5. ASSUME NEW i \in 1 .. n, NEW j \in Run(t, i), ~(i - j < 3)
        PROVE  \E l \in 1 .. n - 3 : \A k \in l .. l + 3 : t[k] = "other"
    <2>1. j \in 1 .. i /\ \A k \in j .. i : t[k] = "other"
      BY DEF Run
    <2>2. j \in 1 .. n - 3 /\ \A k \in j .. j + 3 : k \in j .. i
      BY <1>2, <1>5, <2>1
    <2> QED
      BY <2>1, <2>2
  <1> QED
    BY <1>3, <1>4, <1>5 DEF IpCheckVersion4

-----------------------------------------------------------------------------
(***************************************************************************)
(* Users                                                                   *)
(***************************************************************************)

UsersInv ==
    /\ ring \in [UserNames -> Rings]
    /\ fUserToken = [u \in UserNames |-> NoToken]
    /\ matched \in {"none", "No"}

LEMMA UsersKept == UsersInv /\ [Next]_vars => UsersInv'
  <1> SUFFICES ASSUME UsersInv, [Next]_vars PROVE UsersInv'
    OBVIOUS
  <1>1. UsersNext \/ UNCHANGED userVars
    BY DEF Next, vars
  <1>2. ASSUME NEW u, NEW p PROVE Failed(Constructed(u, p))
    BY DEF Failed, Constructed
  <1>3. CASE UsersNext
    <2>1. PICK u \in UserNames, p \in Passwords \cup {Empty} : Save(u, p) \/ Matches(u, p)
      BY <1>3 DEF UsersNext
    <2>2. CASE Save(u, p)
      BY <1>2, <2>2 DEF Save, UsersInv
    <2>3. CASE Matches(u, p)
      BY <1>2, <2>3 DEF Matches, UsersInv
    <2> QED
      BY <2>1, <2>2, <2>3
  <1> QED
    BY <1>1, <1>3 DEF UsersInv, userVars

\* MessagesSound: whoever constructs packets, fills in, passes and sanitises
\* them in whatever order, a packet that is let through has had its size, and
\* under a current process 0 one of its addresses, replaced; it is not one that
\* is copied onto itself; nothing is written behind a packet whose process has
\* announced no more than there is; and what arrives in a packet is what is
\* meant for the sender the kernel put there (IPC.cc:41, :76, IPC.h:80).
\* Addresses are refused for a group of four only (IP.cc:105).
THEOREM MessagesAreSound == Spec => []MessagesSound
  <1>1. Init => MessagesInv
    BY MessagesBegin DEF Init
  <1>2. MessagesInv => MessagesSound
    <2> SUFFICES ASSUME MessagesInv PROVE MessagesSound
      OBVIOUS
    <2>1. SaneTakesWork
      BY SaneIs DEF SaneTakesWork
    <2>2. NoEcho
      BY DEF NoEcho, Sane, MayPass
    <2>3. StaysInside /\ ForTheCurrent
      BY DEF MessagesInv
    <2>4. IpAccepted
      BY AddressesExact DEF IpAccepted, MessagesInv
    <2> QED
      BY <2>1, <2>2, <2>3, <2>4 DEF MessagesSound
  <1> QED
    BY <1>1, <1>2, MessagesKept, PTL DEF Spec

-----------------------------------------------------------------------------
(***************************************************************************)
(* Paging                                                                  *)
(***************************************************************************)

\* What mm_map_page works on.
EntriesInv ==
    /\ words \in [Spaces \X Indices -> Entries \cup {NoEntry}]
    /\ pte \in [Entries -> SUBSET kMMFlags]
    /\ store \in [va : Addresses \cup {Null}, pte : Entries \cup {NoEntry}]
    /\ StoreHonest
    /\ asked \in [flags : SUBSET kMMFlags, pte : Entries \cup {NoEntry}]
    /\ FlagsAsAsked

\* The directory in use: CR3 was left to no process that still runs.
SpacesInv ==
    /\ cr3 \in Spaces
    /\ process \in [Processes -> {"none", "live", "holding", "exited"}]
    /\ Cr3Back

PagingInv == EntriesInv /\ SpacesInv /\ pmm \in [given : {0}, taken : Nat]

LEMMA PagingBegin == PagingInit => PagingInv
  <1> SUFFICES ASSUME PagingInit PROVE PagingInv
    OBVIOUS
  <1> USE DEF PagingInit
  <1>1. EntriesInv
    <2>1. store.va = Null /\ asked.pte = NoEntry
      OBVIOUS
    <2>2. StoreHonest /\ FlagsAsAsked
      BY <2>1 DEF StoreHonest, FlagsAsAsked
    <2> QED
      BY <2>2 DEF EntriesInv
  <1>2. SpacesInv
    BY DEF SpacesInv, Cr3Back, Spaces
  <1> QED
    BY <1>1, <1>2 DEF PagingInv

\* MakeMMFlags (PageMgr.cc) sets no bit that mmi_map_page_table_entry forgets
\* and always the one that it sets anyway.
LEMMA FlagsKept ==
  ASSUME NEW wr \in BOOLEAN, NEW user \in BOOLEAN, NEW bits
  PROVE  /\ MakeMMFlags(wr, user) \in SUBSET kMMFlags
         /\ Marked(bits, MakeMMFlags(wr, user)) = MakeMMFlags(wr, user)
  BY DEF MakeMMFlags, Marked, kMMFlags

\* The whole of mm_map_page: the entry gets the flags asked for and the store
\* a pair that some directory has.
LEMMA MapKeeps ==
  ASSUME EntriesInv, UNCHANGED words,
         NEW space \in Spaces, NEW va \in Addresses \cup {Null},
         NEW wr \in BOOLEAN, NEW user \in BOOLEAN,
         MapPage(space, va, MakeMMFlags(wr, user))
  PROVE  EntriesInv'
  <1> DEFINE flags == MakeMMFlags(wr, user)
             e == Target(space, va)
  <1>0. flags \in SUBSET kMMFlags /\ \A bits : Marked(bits, flags) = flags
    BY FlagsKept
  <1> HIDE DEF flags
  <1>1. CASE UNCHANGED <<pte, store, asked>>
    BY <1>1 DEF EntriesInv, StoreHonest, FlagsAsAsked
  <1>2. CASE /\ va # Null
             /\ pte' = [x \in Entries |-> IF x = e THEN Marked(pte[x], flags) ELSE pte[x]]
             /\ store' = StoreAfter(va, e)
             /\ asked' = [flags |-> flags, pte |-> e]
    <2>1. va \in Addresses /\ va.pt \in Indices
      BY <1>2 DEF Addresses
    <2>2. e \in Entries \cup {NoEntry}
      BY <2>1 DEF Target, EntriesInv
    <2>3. e # NoEntry => \E s \in Spaces : e = words[<<s, va.pt>>]
      BY <1>2, <2>1 DEF Target, EntriesInv, StoreHonest
    <2> HIDE DEF e
    <2>4. pte' \in [Entries -> SUBSET kMMFlags]
      BY <1>0, <1>2 DEF EntriesInv
    <2>5. FlagsAsAsked'
      <3>1. asked'.pte = e /\ asked'.flags = flags
        BY <1>2
      <3>2. e \in Entries => pte'[e] = flags
        BY <1>0, <1>2
      <3> QED
        BY <2>2, <3>1, <3>2 DEF FlagsAsAsked
    <2>6. asked' \in [flags : SUBSET kMMFlags, pte : Entries \cup {NoEntry}]
      BY <1>0, <1>2, <2>2
    <2>7. store' \in [va : Addresses \cup {Null}, pte : Entries \cup {NoEntry}]
      BY <1>2, <2>1, <2>2 DEF StoreAfter, EntriesInv
    <2>8. StoreHonest'
      <3>1. CASE e = NoEntry
        BY <1>2, <3>1 DEF StoreAfter, EntriesInv, StoreHonest
      <3>2. CASE e # NoEntry
        <4>1. store' = [va |-> va, pte |-> e]
          BY <1>2, <3>2 DEF StoreAfter
        <4>2. store'.va = va /\ store'.pte = e
          BY <4>1
        <4> QED
          BY <2>3, <3>2, <4>2 DEF StoreHonest
      <3> QED
        BY <3>1, <3>2
    <2> QED
      BY <2>4, <2>5, <2>6, <2>7, <2>8 DEF EntriesInv
  <1> QED
    BY <1>1, <1>2 DEF MapPage, flags

LEMMA PagingKept == PagingInv /\ [Next]_vars => PagingInv'
  <1> SUFFICES ASSUME PagingInv, [Next]_vars PROVE PagingInv'
    OBVIOUS
  <1>0. Kernel \in Spaces /\ \A p \in Processes : p \in Spaces /\ p # Kernel
    BY PagingNames DEF Spaces
  <1>1. CASE UNCHANGED pagingVars
    BY <1>1 DEF pagingVars, PagingInv, EntriesInv, SpacesInv, StoreHonest, FlagsAsAsked, Cr3Back
  <1>2. ASSUME NEW wr \in BOOLEAN, NEW user \in BOOLEAN, AllocBitmap(wr, user)
        PROVE  PagingInv'
    <2>1. EntriesInv'
      BY <1>2, MapKeeps DEF AllocBitmap, PagingInv, SpacesInv
    <2> QED
      BY <1>2, <2>1 DEF AllocBitmap, PagingInv, SpacesInv, Cr3Back
  <1>3. ASSUME NEW wr \in BOOLEAN, NEW user \in BOOLEAN, RequestPage(user, wr)
        PROVE  PagingInv'
    <2>1. EntriesInv'
      BY <1>3, MapKeeps DEF RequestPage, PagingInv, SpacesInv
    <2>2. pmm' \in [given : {0}, taken : Nat]
      BY <1>3 DEF RequestPage, PagingInv, Present
    <2> QED
      BY <1>3, <2>1, <2>2 DEF RequestPage, PagingInv, SpacesInv, Cr3Back
  <1>4. ASSUME NEW p \in Processes, Spawn(p)
        PROVE  PagingInv'
    <2>1. EntriesInv'
      BY <1>4, MapKeeps DEF Spawn, PagingInv, SpacesInv
    <2>2. SpacesInv'
      BY <1>4 DEF Spawn, PagingInv, SpacesInv, Cr3Back
    <2> QED
      BY <1>4, <2>1, <2>2 DEF Spawn, PagingInv
  <1>5. ASSUME NEW p \in Processes, PagedNew(p)
        PROVE  PagingInv'
    <2>1. EntriesInv'
      BY <1>0, <1>5, MapKeeps DEF PagedNew, PagingInv
    <2>2. SpacesInv'
      BY <1>5 DEF PagedNew, Restored, PagingInv, SpacesInv, Cr3Back
    <2> QED
      BY <1>5, <2>1, <2>2 DEF PagedNew, PagingInv
  <1>6. ASSUME NEW p \in Processes, PagedDelete(p) \/ PagedExit(p)
        PROVE  PagingInv'
    <2>1. EntriesInv'
      BY <1>6 DEF PagedDelete, PagedExit, PagingInv, EntriesInv, StoreHonest, FlagsAsAsked
    <2>2. SpacesInv'
      <3>1. cr3' \in {cr3, p}
        BY <1>6 DEF PagedDelete, PagedExit, Restored
      <3>2. CASE PagedDelete(p)
        BY <3>2 DEF PagedDelete, Restored, PagingInv, SpacesInv, Cr3Back
      <3>3. CASE PagedExit(p)
        <4>1. /\ process' \in [Processes -> {"none", "live", "holding", "exited"}]
              /\ process'[p] = "exited"
              /\ \A q \in Processes : process[q] = "exited" => process'[q] = "exited"
          BY <3>3 DEF PagedExit, PagingInv, SpacesInv
        <4>2. cr3 = Kernel \/ (cr3 \in Processes /\ process[cr3] = "exited")
          <5>1. cr3 \in Spaces /\ (cr3 = Kernel \/ process[cr3] = "exited")
            BY DEF PagingInv, SpacesInv, Cr3Back
          <5> QED
            BY <5>1 DEF Spaces
        <4> QED
          BY <1>0, <3>1, <4>1, <4>2 DEF SpacesInv, Cr3Back
      <3> QED
        BY <1>6, <3>2, <3>3
    <2> QED
      BY <1>6, <2>1, <2>2 DEF PagedDelete, PagedExit, PagingInv
  <1>7. PagingNext \/ UNCHANGED pagingVars
    BY DEF Next, vars
  <1> QED
    BY <1>1, <1>2, <1>3, <1>4, <1>5, <1>6, <1>7 DEF PagingNext

\* PagingSound: every entry a call worked on has the flags asked for and no
\* other, the store pairs no address with an entry no directory has for it,
\* CR3 comes back but for the exit of a process without memory, and no page is
\* ever given (HalPagingMgrAMD64.cc, UserProcessScheduler.cc:214, Pmm.cc:40):
\* for all processes, addresses and contents of the page tables.
THEOREM PagingIsSound == Spec => []PagingSound
  <1>1. Init => PagingInv
    BY PagingBegin DEF Init
  <1>2. PagingInv => PagingSound
    BY DEF PagingInv, EntriesInv, SpacesInv, PagingSound, PmmGivesNothing
  <1> QED
    BY <1>1, <1>2, PagingKept, PTL DEF Spec

-----------------------------------------------------------------------------
(***************************************************************************)
(* The file manager                                                        *)
(***************************************************************************)

StreamStates == [open : BOOLEAN, restrict : {"r", "w", "rb"}, node : Nodes \cup {NoNode},
                 holds : BOOLEAN]

\* A stream that holds a node holds it alone, and every node of the streams
\* has one that holds it.
Owned ==
    /\ \A s \in Streams : stream[s].holds =>
          stream[s].node # NoNode /\ held[stream[s].node] = "stream"
    /\ \A s, t \in Streams : stream[s].holds /\ stream[t].holds /\ stream[s].node = stream[t].node
                               => s = t
    /\ \A n \in Nodes : held[n] = "stream" => \E s \in Streams : stream[s].holds /\ stream[s].node = n

\* Who may have lost a node: nobody before a write, a stream that wrote before
\* one of them has freed the block of another.
Losers ==
    /\ ~deleted => ~harm
    /\ ~deleted => \A s \in Streams : stream[s].node # NoNode => stream[s].holds
    /\ ~harm => \A s \in Streams : stream[s].node # NoNode /\ stream[s].restrict # "w"
                                     => stream[s].holds

StreamsInv ==
    /\ stream \in [Streams -> StreamStates]
    /\ \A s \in Streams : ~stream[s].open => stream[s] = Closed
    /\ held \in [Nodes -> {"free", "stream", "others"}]
    /\ deleted \in BOOLEAN /\ harm \in BOOLEAN
    /\ Owned /\ Losers

\* The fork of the system page is made once, right after its catalog, or never.
InstallInv ==
    /\ install \in {"start", "directories", "page", "fork", "done", "stopped"}
    /\ pageForks \in 0 .. 1 /\ cut \in BOOLEAN
    /\ SysPage \notin catalogs => pageForks = 0 /\ ~cut
    /\ install = "fork" => SysPage \in catalogs /\ pageForks = 0 /\ ~cut
    /\ PageForked
    /\ catalogs \subseteq Dirs \cup {SysPage, TheFile}

FilesInv ==
    /\ StreamsInv /\ InstallInv
    /\ mounted \in BOOLEAN
    /\ DOMAIN file \subseteq Forks
    /\ answer \in {"none", "null", "header"}

LEMMA ClosedState ==
  Closed \in StreamStates /\ ~Closed.open /\ Closed.node = NoNode /\ ~Closed.holds
  BY DEF Closed, StreamStates

LEMMA AllClosed ==
  ASSUME stream = [s \in Streams |-> Closed], held = [n \in Nodes |-> "free"],
         deleted = FALSE, harm = FALSE
  PROVE  StreamsInv
  BY ClosedState DEF StreamsInv, Owned, Losers

LEMMA FilesBegin == FilesInit => FilesInv
  <1> SUFFICES ASSUME FilesInit PROVE FilesInv
    OBVIOUS
  <1>1. StreamsInv
    BY AllClosed DEF FilesInit
  <1>2. SysPage \notin catalogs /\ catalogs \subseteq Dirs \cup {SysPage, TheFile}
    BY DEF FilesInit, Dirs, TheFile, SysPage
  <1>3. InstallInv
    <2>1. pageForks = 0 /\ install = "start" /\ cut = FALSE
      BY DEF FilesInit
    <2>2. SysPage \notin catalogs /\ catalogs \subseteq Dirs \cup {SysPage, TheFile}
      BY <1>2
    <2> QED
      <3>1. PageForked /\ (SysPage \notin catalogs => pageForks = 0 /\ ~cut)
        BY <2>1, <2>2, Zenon DEF PageForked
      <3>2. pageForks \in 0 .. 1 /\ install # "fork"
        BY <2>1
      <3>3. install \in {"start", "directories", "page", "fork", "done", "stopped"}
        BY <2>1
      <3>4. cut \in BOOLEAN
        BY <2>1
      <3> QED
        BY <2>2, <3>1, <3>2, <3>3, <3>4, Zenon DEF InstallInv
  <1>4. DOMAIN file \subseteq Forks
    <2>1. PICK S \in SUBSET Forks : file = [f \in S |-> "old"]
      BY DEF FilesInit
    <2> QED
      BY <2>1
  <1> QED
    BY <1>1, <1>3, <1>4 DEF FilesInit, FilesInv

\* What an operation on other state leaves of the streams.
LEMMA StreamsSame ==
  ASSUME StreamsInv, UNCHANGED <<stream, held, deleted, harm>>
  PROVE  StreamsInv'
  BY DEF StreamsInv, Owned, Losers

LEMMA InstallSame ==
  ASSUME InstallInv, UNCHANGED <<catalogs, pageForks, install, cut>>
  PROVE  InstallInv'
  BY DEF InstallInv, PageForked

LEMMA InstallKeeps ==
  ASSUME FilesInv, Install
  PROVE  FilesInv'
  <1>1. UNCHANGED <<file, stream, held, deleted, harm, cut, answer>> /\ mounted' \in BOOLEAN
    BY DEF Install, InstallMount, InstallDirectories, InstallPage, InstallFork, FilesInv,
           historyVars
  <1>2. InstallInv'
    <2>1. CASE InstallMount
      BY <1>1, <2>1 DEF InstallMount, FilesInv, InstallInv, PageForked
    <2>2. CASE InstallDirectories
      BY <1>1, <2>2 DEF InstallDirectories, ParserOf, FilesInv, InstallInv, PageForked
    <2>3. CASE InstallPage
      BY <1>1, <2>3 DEF InstallPage, PageMissing, FilesInv, InstallInv, PageForked
    <2>4. CASE InstallFork
      BY <1>1, <2>4 DEF InstallFork, MaxForks, FilesInv, InstallInv, PageForked
    <2> QED
      BY <2>1, <2>2, <2>3, <2>4 DEF Install
  <1> QED
    BY <1>1, <1>2, StreamsSame DEF FilesInv

LEMMA RestartKeeps ==
  ASSUME FilesInv, Restart
  PROVE  FilesInv'
  <1>1. StreamsInv'
    BY ClosedState DEF Restart, StreamsInv, Owned, Losers
  <1>2. InstallInv'
    BY DEF Restart, FilesInv, InstallInv, PageForked
  <1> QED
    BY <1>1, <1>2 DEF Restart, FilesInv

\* A stream is opened: the node it gets was free, so nobody else holds it.
LEMMA OpenKeeps ==
  ASSUME FilesInv, NEW s \in Streams, NEW mode \in Modes, Open(s, mode)
  PROVE  FilesInv'
  <1>0. UNCHANGED <<mounted, catalogs, file, pageForks, deleted, harm, cut>> /\ answer' = "none"
    BY DEF Open, historyVars
  <1>1. InstallInv'
    BY <1>0 DEF Open, FilesInv, InstallInv, PageForked
  <1>3. CASE UNCHANGED <<stream, held>>
    BY <1>0, <1>1, <1>3, StreamsSame DEF FilesInv
  <1>4. ASSUME NEW n \in Nodes \cup {NoNode}, n \in Nodes => held[n] = "free",
               stream' = [stream EXCEPT ![s] =
                            [open |-> TRUE, restrict |-> RestrictOf(mode), node |-> n,
                             holds |-> n # NoNode]],
               held' = [m \in Nodes |-> IF m = n THEN "stream" ELSE held[m]]
        PROVE  FilesInv'
    <2> DEFINE r == [open |-> TRUE, restrict |-> RestrictOf(mode), node |-> n,
                     holds |-> n # NoNode]
    <2>1. r \in StreamStates /\ r.open /\ r.node = n /\ (r.holds <=> n # NoNode)
      BY DEF RestrictOf, StreamStates, Modes
    <2>2. \A t \in Streams : stream'[t] = IF t = s THEN r ELSE stream[t]
      BY <1>4 DEF FilesInv, StreamsInv
    <2>3. stream' \in [Streams -> StreamStates]
      BY <1>4, <2>1 DEF FilesInv, StreamsInv
    <2> HIDE DEF r
    <2>4. held' \in [Nodes -> {"free", "stream", "others"}]
      BY <1>4 DEF FilesInv, StreamsInv
    <2>5. \A t \in Streams : ~stream'[t].open => stream'[t] = Closed
      BY <2>1, <2>2 DEF FilesInv, StreamsInv
    <2>6. Owned /\ ~stream[s].holds /\ \A t \in Streams : stream[t].node \in Nodes \cup {NoNode}
      <3>1. stream[s] = Closed
        BY DEF Open, FilesInv, StreamsInv
      <3> QED
        BY <3>1, ClosedState DEF FilesInv, StreamsInv, StreamStates
    <2>7. \A t \in Streams : stream[t].holds => stream[t].node # n
      BY <1>4, <2>6 DEF Owned
    <2>8. Owned'
      <3>1. \A t \in Streams : stream'[t].holds =>
               stream'[t].node # NoNode /\ held'[stream'[t].node] = "stream"
        BY <1>4, <2>1, <2>2, <2>6 DEF Owned
      <3>2. \A t, u \in Streams : stream'[t].holds /\ stream'[u].holds
                                    /\ stream'[t].node = stream'[u].node => t = u
        BY <2>1, <2>2, <2>6, <2>7 DEF Owned
      <3>3. ASSUME NEW m \in Nodes, held'[m] = "stream"
            PROVE  \E t \in Streams : stream'[t].holds /\ stream'[t].node = m
        <4>1. CASE m = n
          BY <2>1, <2>2, <4>1, FileAssumption
        <4>2. CASE m # n
          <5>1. held[m] = "stream"
            BY <1>4, <3>3, <4>2
          <5>2. PICK t \in Streams : stream[t].holds /\ stream[t].node = m
            BY <2>6, <5>1 DEF Owned
          <5> QED
            BY <2>2, <2>6, <5>2
        <4> QED
          BY <4>1, <4>2
      <3> QED
        BY <3>1, <3>2, <3>3 DEF Owned
    <2>9. Losers'
      BY <1>0, <2>1, <2>2 DEF FilesInv, StreamsInv, Losers
    <2> QED
      BY <1>0, <1>1, <2>3, <2>4, <2>5, <2>8, <2>9 DEF FilesInv, StreamsInv
  <1>5. \/ UNCHANGED <<stream, held>>
        \/ \E n \in Nodes \cup {NoNode} :
              /\ n \in Nodes => held[n] = "free"
              /\ stream' = [stream EXCEPT ![s] =
                              [open |-> TRUE, restrict |-> RestrictOf(mode), node |-> n,
                               holds |-> n # NoNode]]
              /\ held' = [m \in Nodes |-> IF m = n THEN "stream" ELSE held[m]]
    BY FileAssumption DEF Open
  <1> QED
    BY <1>3, <1>4, <1>5

\* What deleting the node of s leaves: whoever held the block holds none, and
\* that was s itself unless the block had been freed and given away before.
LEMMA DeleteKeeps ==
  ASSUME StreamsInv, NEW s \in Streams, DeleteNode(s), NEW c, c \in StreamStates,
         ~c.holds, ~c.open => c = Closed,
         stream' = [Unheld(stream[s].node) EXCEPT ![s] = c],
         deleted' \in BOOLEAN, deleted => deleted',
         c.node # NoNode => c.restrict = "w" /\ deleted',
         harm' => deleted'
  PROVE  StreamsInv'
  <1> DEFINE n == stream[s].node
  <1>1. /\ held' = [m \in Nodes |-> IF m = n THEN "free" ELSE held[m]]
        /\ harm' = (harm \/ (n # NoNode /\ held[n] # "free" /\ ~stream[s].holds))
    BY DEF DeleteNode
  <1>2. \A t \in Streams : stream'[t] =
           IF t = s THEN c
           ELSE IF stream[t].node = n THEN [stream[t] EXCEPT !.holds = FALSE] ELSE stream[t]
    BY DEF Unheld
  <1>3. /\ stream \in [Streams -> StreamStates] /\ Owned /\ Losers
        /\ held \in [Nodes -> {"free", "stream", "others"}] /\ harm \in BOOLEAN
        /\ \A t \in Streams : ~stream[t].open => stream[t] = Closed
    BY DEF StreamsInv
  <1> HIDE DEF n
  <1>4. ASSUME NEW t \in Streams, t # s
        PROVE  /\ stream'[t] \in StreamStates
               /\ stream'[t].open = stream[t].open /\ stream'[t].node = stream[t].node
               /\ stream'[t].restrict = stream[t].restrict
               /\ stream[t].node = n => ~stream'[t].holds
               /\ stream[t].node # n => stream'[t] = stream[t]
    <2>1. stream[t] \in StreamStates
      BY <1>3
    <2>2. CASE stream[t].node # n
      BY <1>2, <1>4, <2>1, <2>2
    <2>3. CASE stream[t].node = n
      <3> DEFINE k == stream[t]
      <3>1. stream'[t] = [k EXCEPT !.holds = FALSE]
        BY <1>2, <1>4, <2>3
      <3>2. k \in StreamStates
        BY <2>1
      <3> HIDE DEF k
      <3> DEFINE l == [k EXCEPT !.holds = FALSE]
      <3>3. /\ l \in StreamStates /\ ~l.holds
            /\ l.open = k.open /\ l.node = k.node /\ l.restrict = k.restrict
        <4>1. l \in StreamStates
          BY <3>2 DEF StreamStates
        <4>2. ~l.holds
          BY <3>2 DEF StreamStates
        <4>3. l.open = k.open /\ l.node = k.node /\ l.restrict = k.restrict
          BY <3>2 DEF StreamStates
        <4> QED
          BY <4>1, <4>2, <4>3
      <3>4. stream'[t] = l
        BY <3>1
      <3> HIDE DEF l
      <3> QED
        BY <2>3, <3>3, <3>4 DEF k
    <2> QED
      BY <2>2, <2>3
  <1>5. stream'[s] = c
    BY <1>2
  <1>6. \A t \in Streams : stream'[t].holds => t # s /\ stream'[t] = stream[t] /\ stream[t].node # n
    BY <1>4, <1>5
  <1>7. Owned'
    <2>1. \A t \in Streams : stream[t].node \in Nodes \cup {NoNode}
      BY <1>3 DEF StreamStates
    <2>2. \A t \in Streams : stream'[t].holds =>
             stream'[t].node # NoNode /\ held'[stream'[t].node] = "stream"
      BY <1>1, <1>3, <1>6, <2>1 DEF Owned
    <2>3. \A t, u \in Streams : stream'[t].holds /\ stream'[u].holds
                                  /\ stream'[t].node = stream'[u].node => t = u
      BY <1>3, <1>6 DEF Owned
    <2>4. ASSUME NEW m \in Nodes, held'[m] = "stream"
          PROVE  \E t \in Streams : stream'[t].holds /\ stream'[t].node = m
      <3>1. m # n /\ held[m] = "stream"
        BY <1>1, <2>4
      <3>2. PICK t \in Streams : stream[t].holds /\ stream[t].node = m
        BY <1>3, <3>1 DEF Owned
      <3>3. t # s
        BY <3>1, <3>2 DEF n
      <3> QED
        BY <1>4, <3>1, <3>2, <3>3
    <2> QED
      BY <2>2, <2>3, <2>4 DEF Owned
  <1>8. ~harm' => \A t \in Streams \ {s} : stream[t].holds => stream[t].node # n
    <2> SUFFICES ASSUME ~harm', NEW t \in Streams \ {s}, stream[t].holds, stream[t].node = n
                 PROVE  FALSE
      OBVIOUS
    <2>1. n # NoNode /\ held[n] = "stream"
      BY <1>3 DEF Owned
    <2>2. stream[s].holds
      BY <1>1, <2>1
    <2> QED
      BY <1>3, <2>2 DEF Owned, n
  <1>9. Losers'
    <2>1. ~deleted' => ~deleted /\ ~harm'
      OBVIOUS
    <2>2. ~harm' => ~harm
      BY <1>1
    <2>3. ASSUME ~deleted', NEW t \in Streams, stream'[t].node # NoNode PROVE stream'[t].holds
      <3>1. t # s
        BY <1>5, <2>3
      <3>2. stream[t].holds
        BY <1>3, <1>4, <2>1, <2>3, <3>1 DEF Losers
      <3> QED
        BY <1>4, <1>8, <2>1, <2>3, <3>1, <3>2
    <2>4. ASSUME ~harm', NEW t \in Streams, stream'[t].node # NoNode, stream'[t].restrict # "w"
          PROVE  stream'[t].holds
      <3>1. t # s
        BY <1>5, <2>4
      <3>2. stream[t].holds
        BY <1>3, <1>4, <2>2, <2>4, <3>1 DEF Losers
      <3> QED
        BY <1>4, <1>8, <2>4, <3>1, <3>2
    <2> QED
      BY <2>1, <2>3, <2>4 DEF Losers
  <1>10. stream' \in [Streams -> StreamStates]
    <2>1. DOMAIN Unheld(stream[s].node) = Streams
      BY DEF Unheld
    <2>2. stream' = [t \in Streams |-> stream'[t]]
      BY <2>1
    <2> QED
      BY <1>4, <1>5, <2>2
  <1>11. \A t \in Streams : ~stream'[t].open => stream'[t] = Closed
    <2> SUFFICES ASSUME NEW t \in Streams, ~stream'[t].open PROVE stream'[t] = Closed
      OBVIOUS
    <2>1. CASE t = s
      BY <1>5, <2>1
    <2>2. CASE t # s
      <3>1. stream[t] = Closed
        BY <1>3, <1>4, <2>2
      <3>2. CASE stream[t].node # n
        BY <1>4, <2>2, <3>1, <3>2
      <3>3. CASE stream[t].node = n
        <4>1. stream'[t] = [Closed EXCEPT !.holds = FALSE]
          BY <1>2, <2>2, <3>1, <3>3
        <4> QED
          BY <4>1 DEF Closed
      <3> QED
        BY <3>2, <3>3
    <2> QED
      BY <2>1, <2>2
  <1>12. held' \in [Nodes -> {"free", "stream", "others"}]
    BY <1>1, <1>3
  <1>13. harm' \in BOOLEAN
    BY <1>1, <1>3
  <1> QED
    BY <1>7, <1>9, <1>10, <1>11, <1>12, <1>13 DEF StreamsInv

\* A write deletes the node only through a stream that may write.
LEMMA WriteKeeps ==
  ASSUME FilesInv, NEW s \in Streams, NEW size \in Sizes, Write(s, size)
  PROVE  FilesInv'
  <1>0. UNCHANGED <<mounted, catalogs, pageForks, install>> /\ answer' = "none"
    BY DEF Write
  <1>2. CASE UNCHANGED <<file, held, stream, historyVars>>
    <2>1. UNCHANGED <<file, held, stream, deleted, harm, cut>>
      BY <1>2 DEF historyVars
    <2> QED
      BY <1>0, <2>1, StreamsSame, InstallSame DEF FilesInv
  <1>3. ASSUME NEW fork, MayWrite(s), stream[s].node # NoNode, WriteNode(s, fork)
        PROVE  FilesInv'
    <2> DEFINE c == [stream[s] EXCEPT !.holds = FALSE]
    <2>0. stream[s] \in StreamStates /\ StreamsInv
      BY DEF FilesInv, StreamsInv
    <2>1. stream[s].restrict = "w"
      BY <1>3, <2>0 DEF MayWrite, StreamStates
    <2>2. /\ DOMAIN file' = DOMAIN file /\ DeleteNode(s) /\ deleted' = TRUE /\ cut' = cut
          /\ stream' = Unheld(stream[s].node)
      BY <1>3 DEF WriteNode
    <2>3. c \in StreamStates /\ ~c.holds /\ c.restrict = "w" /\ c.open = stream[s].open
      BY <2>0, <2>1 DEF StreamStates
    <2>4. ~c.open => c = Closed
      BY <2>0, <2>3, <1>3, ClosedState DEF StreamsInv
    <2>5. stream' = [Unheld(stream[s].node) EXCEPT ![s] = c]
      BY <2>2 DEF Unheld
    <2> HIDE DEF c
    <2>6. StreamsInv'
      BY <2>0, <2>2, <2>3, <2>4, <2>5, DeleteKeeps
    <2>7. InstallInv'
      BY <1>0, <2>2, InstallSame DEF FilesInv
    <2> QED
      BY <1>0, <2>2, <2>6, <2>7 DEF FilesInv
  <1> QED
    BY <1>2, <1>3 DEF Write

\* Closing gives the node back: nobody else had it, or a write had deleted it.
LEMMA CloseKeeps ==
  ASSUME FilesInv, NEW s \in Streams, Close(s)
  PROVE  FilesInv'
  <1>0. /\ UNCHANGED <<mounted, catalogs, file, pageForks, deleted, cut, install>>
        /\ answer' = "none" /\ DeleteNode(s)
        /\ stream' = [Unheld(stream[s].node) EXCEPT ![s] = Closed]
    BY DEF Close
  <1>1. InstallInv'
    BY <1>0, InstallSame DEF FilesInv
  <1>2. StreamsInv /\ deleted \in BOOLEAN
    BY DEF FilesInv, StreamsInv
  <1>3. harm' => deleted'
    <2> SUFFICES ASSUME ~deleted PROVE ~harm'
      BY <1>0
    <2>1. ~harm /\ (stream[s].node # NoNode => stream[s].holds)
      BY <1>2 DEF StreamsInv, Losers
    <2> QED
      BY <1>0, <2>1 DEF DeleteNode
  <1>4. StreamsInv'
    BY <1>0, <1>2, <1>3, ClosedState, DeleteKeeps
  <1> QED
    BY <1>0, <1>1, <1>4 DEF FilesInv

LEMMA OthersKeep ==
  ASSUME FilesInv, NEW n \in Nodes, OthersAllocate(n)
  PROVE  FilesInv'
  <1>0. UNCHANGED <<mounted, catalogs, file, pageForks, stream, deleted, harm, cut, install, answer>>
    BY DEF OthersAllocate, historyVars
  <1>1. InstallInv'
    BY <1>0, InstallSame DEF FilesInv
  <1>2. /\ held' \in [Nodes -> {"free", "stream", "others"}]
        /\ \A m \in Nodes : held'[m] = "stream" <=> held[m] = "stream"
    BY DEF OthersAllocate, FilesInv, StreamsInv
  <1>3. \A s \in Streams : stream[s].node \in Nodes \cup {NoNode}
    BY DEF FilesInv, StreamsInv, StreamStates
  <1>4. Owned'
    BY <1>0, <1>2, <1>3 DEF FilesInv, StreamsInv, Owned
  <1>5. Losers'
    BY <1>0 DEF FilesInv, StreamsInv, Losers
  <1> QED
    BY <1>0, <1>1, <1>2, <1>4, <1>5 DEF FilesInv, StreamsInv

LEMMA FilesKept == FilesInv /\ [Next]_vars => FilesInv'
  <1> SUFFICES ASSUME FilesInv, [Next]_vars PROVE FilesInv'
    OBVIOUS
  <1>1. CASE UNCHANGED fileVars
    BY <1>1, StreamsSame, InstallSame DEF fileVars, historyVars, FilesInv
  <1>3. CASE Mount \/ Unmount
    BY <1>3, StreamsSame, InstallSame DEF Mount, Unmount, historyVars, FilesInv
  <1>4. ASSUME NEW p \in {TheFile, "/System/"}, Create(p)
        PROVE  FilesInv'
    <2>1. SysPage \in catalogs' <=> SysPage \in catalogs
      BY <1>4 DEF Create, SysPage, TheFile
    <2>2. InstallInv'
      BY <1>4, <2>1 DEF Create, FilesInv, InstallInv, PageForked, Dirs, historyVars
    <2> QED
      BY <1>4, <2>2, StreamsSame DEF Create, historyVars, FilesInv
  <1>5. ASSUME NEW s \in Streams, NEW size \in Sizes, Read(s, size)
        PROVE  FilesInv'
    BY <1>5, StreamsSame, InstallSame DEF Read, ReadNode, historyVars, FilesInv
  <1>6. FilesNext \/ UNCHANGED fileVars
    BY DEF Next, vars
  <1> QED
    BY <1>1, <1>3, <1>4, <1>5, <1>6, InstallKeeps, RestartKeeps, OpenKeeps, WriteKeeps,
       CloseKeeps, OthersKeep DEF FilesNext

\* FilesSound: before a write has gone through every open stream holds its node
\* alone, and a stream that does not write keeps doing so until one that wrote
\* frees the block a second time; no node is left behind; the system page has
\* its one fork but for a cut between the two writes (FileMgr.h:423,
\* NeFS.cc:704, KernelMain.cc:147): for all streams and nodes.
THEOREM FilesAreSound == Spec => []FilesSound
  <1>1. Init => FilesInv
    BY FilesBegin DEF Init
  <1>2. FilesInv => FilesSound
    <2> SUFFICES ASSUME FilesInv PROVE FilesSound
      OBVIOUS
    <2>1. NodeHeld
      BY DEF FilesInv, StreamsInv, Losers, NodeHeld
    <2>2. NodesFreed
      <3>1. \A s \in Streams : stream[s].holds => stream[s].open
        BY ClosedState DEF FilesInv, StreamsInv
      <3> QED
        BY <3>1 DEF FilesInv, StreamsInv, Owned, NodesFreed
    <2>3. PageForked
      BY DEF FilesInv, InstallInv
    <2> QED
      BY <2>1, <2>2, <2>3 DEF FilesSound
  <1> QED
    BY <1>1, <1>2, FilesKept, PTL DEF Spec

-----------------------------------------------------------------------------
(***************************************************************************)
(* The memory of a process                                                 *)
(***************************************************************************)

MemoryInv ==
    /\ MemoryTypeOK
    /\ dll # "ready"
    /\ \A p \in own : owner[p] = "process"
    /\ {"frame", "directory"} \subseteq parts
    /\ harmed \in BOOLEAN
    /\ harmed => life = "stopped"
    /\ ExitLeaves

LEMMA MemoryBegin == MemoryInit => MemoryInv
  <1> SUFFICES ASSUME MemoryInit PROVE MemoryInv
    OBVIOUS
  <1> USE DEF MemoryInit
  <1>1. heapList \in Seq(Pointers) /\ Len(heapList) <= 2
    OBVIOUS
  <1>2. parts \subseteq Parts /\ {"frame", "directory"} \subseteq parts
    BY DEF Spawned, Parts
  <1>3. MemoryTypeOK
    BY <1>1, <1>2 DEF MemoryTypeOK
  <1> QED
    BY <1>2, <1>3 DEF MemoryInv, ExitLeaves

\* UserProcess::New never gives the list a third node.
LEMMA ListedTwo ==
  ASSUME NEW p \in Pointers, heapList \in Seq(Pointers)
  PROVE  Listed(p) \in Seq(Pointers) /\ Len(Listed(p)) <= 2
  <1>1. CASE heapList = <<>>
    BY <1>1 DEF Listed
  <1>2. CASE heapList # <<>>
    <2>1. Head(heapList) \in Pointers
      BY <1>2
    <2>2. Listed(p) = <<Head(heapList), p>>
      BY <1>2 DEF Listed
    <2> QED
      BY <2>1, <2>2
  <1> QED
    BY <1>1, <1>2

LEMMA AllocateKeeps ==
  ASSUME MemoryInv, Allocate
  PROVE  MemoryInv'
  <1>1. life = "running" /\ UNCHANGED <<current, dll, exitFreed, harmed>>
    BY DEF Allocate
  <1>2. CASE life' = "stopped" /\ UNCHANGED <<heapList, parts, owner, own>>
    BY <1>1, <1>2 DEF MemoryInv, MemoryTypeOK, ExitLeaves
  <1>3. ASSUME NEW p \in Free, New(p), life' \in AfterLeak
        PROVE  MemoryInv'
    <2>1. p \in Pointers
      BY DEF Free
    <2>2. heapList' \in Seq(Pointers) /\ Len(heapList') <= 2
      BY <1>3, <2>1, ListedTwo DEF New, MemoryInv, MemoryTypeOK
    <2>3. owner' \in [Pointers -> {"free", "process", "others"}] /\ own' \subseteq Pointers
      BY <1>3, <2>1 DEF New, MemoryInv, MemoryTypeOK
    <2>4. \A q \in own' : owner'[q] = "process"
      BY <1>3, <2>1 DEF New, MemoryInv, MemoryTypeOK
    <2>5. life' \in {"running", "fault"}
      BY <1>3 DEF AfterLeak
    <2>6. parts' \subseteq Parts /\ {"frame", "directory"} \subseteq parts'
      BY <1>3 DEF New, Parts, MemoryInv, MemoryTypeOK
    <2>7. MemoryTypeOK'
      BY <1>1, <2>2, <2>3, <2>5, <2>6 DEF MemoryInv, MemoryTypeOK
    <2> QED
      BY <1>1, <2>4, <2>5, <2>6, <2>7 DEF MemoryInv, ExitLeaves
  <1> QED
    BY <1>2, <1>3 DEF Allocate

\* The loop of Exit: it passes the end of the list only past entries that were
\* free already.
LEMMA ExitKeeps ==
  ASSUME MemoryInv, Exit
  PROVE  MemoryInv'
  <1> DEFINE visited == {i \in DOMAIN heapList :
                           \A j \in 1..(i - 1) : MustPass(Result(heapList[j]))}
             freed   == {heapList[i] : i \in visited} \ Free
             through == \A i \in visited : MustPass(Result(heapList[i]))
  <1>1. /\ owner' = [p \in Pointers |-> IF p \in freed THEN "free" ELSE owner[p]]
        /\ own' = own \ freed
        /\ exitFreed' = freed
        /\ harmed' = (harmed \/ \E p \in freed : owner[p] = "others")
        /\ through => life' = "gone" /\ parts' = parts \ {"first", "second", "reserve", "object"}
        /\ ~through => life' = "stopped" /\ parts' \in {parts, parts \ {"first"}}
        /\ life = "running"
        /\ UNCHANGED <<current, heapList, dll>>
    BY DEF Exit, LooksLikeBitmap
  <1>2. /\ \A i \in DOMAIN heapList : heapList[i] \in Pointers
        /\ DOMAIN heapList \subseteq 1 .. 2
        /\ DOMAIN heapList = 1 .. Len(heapList) /\ Len(heapList) \in Nat
    BY DEF MemoryInv, MemoryTypeOK
  <1>3. ASSUME through
        PROVE  freed = {} /\ \A i \in DOMAIN heapList : heapList[i] \in Free
    <2>1. ASSUME NEW i \in visited PROVE heapList[i] \in Free
      <3>1. owner[heapList[i]] = "free"
        BY <1>3, <2>1 DEF MustPass, Result
      <3> QED
        BY <1>2, <2>1, <3>1 DEF Free
    <2>2. ASSUME NEW i \in DOMAIN heapList PROVE i \in visited
      <3>1. CASE i = 1
        BY <3>1
      <3>2. CASE i = 2
        <4>1. 1 \in visited
          BY <1>2, <3>2
        <4>2. MustPass(Result(heapList[1]))
          BY <1>3, <4>1
        <4>3. \A j \in 1..(i - 1) : j = 1
          BY <3>2
        <4> QED
          BY <4>2, <4>3
      <3> QED
        BY <1>2, <3>1, <3>2
    <2> QED
      BY <2>1, <2>2
  <1> HIDE DEF freed, visited, through
  <1>4. through \/ ~through
    OBVIOUS
  <1>5. ~harmed
    BY <1>1 DEF MemoryInv
  <1>6. harmed' \in BOOLEAN /\ (harmed' => life' = "stopped")
    BY <1>1, <1>3, <1>5
  <1>7. /\ owner' \in [Pointers -> {"free", "process", "others"}] /\ own' \subseteq Pointers
        /\ \A p \in own' : owner'[p] = "process"
    BY <1>1 DEF MemoryInv, MemoryTypeOK
  <1>8. parts' \subseteq parts /\ (parts \ parts') \subseteq {"first", "second", "reserve", "object"}
    BY <1>1, <1>4
  <1>9. parts' \subseteq Parts /\ {"frame", "directory"} \subseteq parts'
    BY <1>8 DEF MemoryInv, MemoryTypeOK
  <1>10. MemoryTypeOK'
    BY <1>1, <1>4, <1>7, <1>9 DEF MemoryInv, MemoryTypeOK
  <1>11. ExitLeaves'
    <2> SUFFICES ASSUME life' = "gone" PROVE ExitLeaves'
      BY DEF ExitLeaves
    <2>1. through
      BY <1>1
    <2>2. exitFreed' = {} /\ own' = own
      BY <1>1, <1>3, <2>1
    <2>3. \A p \in own' : p \notin ToSet(heapList')
      <3>1. \A p \in own : p \notin Free
        BY DEF MemoryInv, MemoryTypeOK, Free
      <3>2. \A p \in ToSet(heapList) : p \in Free
        BY <1>3, <2>1 DEF ToSet
      <3> QED
        BY <1>1, <2>2, <3>1, <3>2
    <2>4. parts' \subseteq {"frame", "directory", "image", "lost"}
      BY <1>1, <2>1 DEF MemoryInv, MemoryTypeOK, Parts
    <2> QED
      BY <1>9, <2>2, <2>3, <2>4 DEF ExitLeaves
  <1> QED
    BY <1>1, <1>6, <1>7, <1>9, <1>10, <1>11 DEF MemoryInv

LEMMA InitDllKeeps ==
  ASSUME MemoryInv, InitDll
  PROVE  MemoryInv'
  <1>0. life = "running" /\ UNCHANGED <<current, exitFreed, harmed>>
    BY DEF InitDll
  <1>1. CASE life' \in {"fault", "stopped"} /\ UNCHANGED <<heapList, parts, owner, own, dll>>
    BY <1>0, <1>1 DEF MemoryInv, MemoryTypeOK, ExitLeaves
  <1>2. ASSUME NEW p \in Free, NEW q \in Free \ {p}, NEW K \in SUBSET {p},
               heapList' = <<p, q>>,
               parts' = parts \cup {"first", "second"},
               own' = own \cup {q} \cup K,
               owner' = [a \in Pointers |-> IF a \in {q} \cup K THEN "process" ELSE owner[a]],
               dll' = "null", life' = "stopped"
        PROVE  MemoryInv'
    <2>1. p \in Pointers /\ q \in Pointers /\ K \subseteq Pointers
      BY DEF Free
    <2>2. heapList' \in Seq(Pointers) /\ Len(heapList') <= 2
      BY <1>2, <2>1
    <2>3. owner' \in [Pointers -> {"free", "process", "others"}] /\ own' \subseteq Pointers
      BY <1>2, <2>1 DEF MemoryInv, MemoryTypeOK
    <2>4. \A a \in own' : owner'[a] = "process"
      BY <1>2, <2>1 DEF MemoryInv, MemoryTypeOK
    <2>5. parts' \subseteq Parts /\ {"frame", "directory"} \subseteq parts'
      BY <1>2 DEF MemoryInv, MemoryTypeOK, Parts
    <2>6. MemoryTypeOK'
      BY <1>0, <1>2, <2>2, <2>3, <2>5 DEF MemoryInv, MemoryTypeOK
    <2> QED
      BY <1>0, <1>2, <2>4, <2>5, <2>6 DEF MemoryInv, ExitLeaves
  <1> QED
    BY <1>1, <1>2 DEF InitDll, Mounted

LEMMA MemoryKept == MemoryInv /\ [Next]_vars => MemoryInv'
  <1> SUFFICES ASSUME MemoryInv, [Next]_vars PROVE MemoryInv'
    OBVIOUS
  <1>1. CASE UNCHANGED memVars
    BY <1>1 DEF memVars, MemoryInv, MemoryTypeOK, ExitLeaves
  <1>2. ASSUME NEW p \in Pointers, Delete(p) \/ Others(p)
        PROVE  MemoryInv'
    <2>1. life = "running" /\ UNCHANGED <<current, heapList, parts, life, dll, exitFreed, harmed>>
      BY <1>2 DEF Delete, Others
    <2>2. owner' \in [Pointers -> {"free", "process", "others"}] /\ own' \subseteq Pointers
      BY <1>2 DEF Delete, Others, MemoryInv, MemoryTypeOK
    <2>3. \A q \in own' : owner'[q] = "process"
      BY <1>2 DEF Delete, Others, MemoryInv, MemoryTypeOK
    <2> QED
      BY <2>1, <2>2, <2>3 DEF MemoryInv, MemoryTypeOK, ExitLeaves
  <1>3. MemoryNext \/ UNCHANGED memVars
    BY DEF Next, vars
  <1> QED
    BY <1>1, <1>2, <1>3, AllocateKeeps, ExitKeeps, InitDllKeeps DEF MemoryNext

-----------------------------------------------------------------------------
(***************************************************************************)
(* The loader                                                              *)
(***************************************************************************)

LoaderStates == [made : BOOLEAN, blob : Blocks \cup {None}, bad : BOOLEAN, fat : BOOLEAN,
                 fFile : {"null", "junk", "open"}]

\* The blocks that rtl_create_process may still take, by where it is.
Need == [p \in {"stack", "heap", "name", "name2", "name3"} |->
           CASE p = "stack" -> 11 [] p = "heap" -> 9 [] p = "name" -> 7 [] p = "name2" -> 5
             [] OTHER -> 3]

\* Who has the allocated blocks, each of them once.
Disjoint ==
    /\ loader.blob \notin copies \cup lost
    /\ copies \cap lost = {}
    /\ BlocksAccounted

LoaderInv ==
    /\ fs \in {"NeFS", "other"} /\ image \in Images
    /\ mem \subseteq Blocks /\ twice \subseteq {"name"} /\ FreedOnce
    /\ loader \in LoaderStates /\ (~loader.made => loader = NoLoader)
    /\ Disjoint
    /\ pc \in {"idle", "stack", "heap", "name", "name2", "name3", "spawn", "fault", "astray"}
    /\ pc \in DOMAIN Need => Cardinality(mem) + Need[pc] <= Cardinality(Blocks)
    /\ NoProcessFromNeFS

\* The smallest of some numbers, which the allocations and the searches use.
LEMMA MinIs ==
  ASSUME NEW S, S \subseteq Nat, S # {}
  PROVE  Min(S) \in S /\ \A y \in S : Min(S) <= y
  <1>1. PICK x \in S : \A y \in S : ~(<<y, x>> \in OpToRel(<, Nat))
    BY WFMin, NatLessThanWellFounded
  <1>2. \A y \in S : y \in Nat /\ x \in Nat /\ ~(y < x)
    BY <1>1 DEF OpToRel
  <1>3. \A y \in S : x <= y
    BY <1>2
  <1> QED
    BY <1>3 DEF Min

LEMMA CountOf ==
  ASSUME NEW M, M \subseteq Blocks
  PROVE  IsFiniteSet(M) /\ Cardinality(M) \in Nat /\ Cardinality(Blocks) \in Nat
  BY LoaderAssumption, FS_Subset, FS_CardinalityType

\* As long as the heap has room an allocation gives a block that is free.
LEMMA FreshIsFree ==
  ASSUME NEW M, M \subseteq Blocks, Cardinality(M) + 1 <= Cardinality(Blocks)
  PROVE  Fresh(M) \in Blocks \ M
  <1>1. M # Blocks
    BY CountOf
  <1>2. Blocks \ M # {} /\ Blocks \ M \subseteq Nat
    BY <1>1, LoaderAssumption
  <1> QED
    BY <1>2, MinIs DEF Fresh

LEMMA OneMore ==
  ASSUME NEW M, M \subseteq Blocks, NEW b \in Blocks \ M
  PROVE  Cardinality(M \cup {b}) = Cardinality(M) + 1
  BY CountOf, FS_AddElement

LEMMA NoneOutside == None \notin Blocks
  BY LoaderAssumption

\* A name is made in a string that is lost, and its buffer is freed twice.
LEMMA NameMade ==
  ASSUME NEW M, M \subseteq Blocks, Cardinality(M) + 2 <= Cardinality(Blocks)
  PROVE  Object(M) \in Blocks \ M /\ BufferAgain(M) = {"name"}
  <1>0. Cardinality(M) \in Nat /\ Cardinality(Blocks) \in Nat
    BY CountOf
  <1>1. Object(M) \in Blocks \ M
    BY <1>0, FreshIsFree DEF Object
  <1> DEFINE H == M \cup {Object(M)}
  <1>2. H \subseteq Blocks /\ Cardinality(H) = Cardinality(M) + 1
    BY <1>1, OneMore
  <1>3. Buffer(M) \in Blocks
    <2> HIDE DEF H
    <2>1. Fresh(H) \in Blocks
      BY <1>0, <1>2, FreshIsFree
    <2> QED
      BY <2>1 DEF Buffer, H
  <1>4. FreedTwice((M \cup {Object(M), Buffer(M)}) \ {Buffer(M)}, Buffer(M))
    BY <1>3, NoneOutside DEF FreedTwice
  <1> QED
    BY <1>1, <1>4 DEF BufferAgain

\* Everything a call of FindSymbol may come to: nothing changes, the block of a
\* kind it does not know is lost, the string of the name is lost, or there is a
\* copy besides, which no disk with NeFS gives.
Nothing(o)  == o.ret = None /\ o.mem = mem /\ o.lost = lost /\ o.twice = twice
Loses(o)    == \E f \in Blocks \ mem : /\ o.ret = None /\ o.mem = mem \cup {f}
                                       /\ o.lost = lost \cup {f} /\ o.twice = twice
Names(o)    == \E f \in Blocks \ mem : /\ o.ret = None /\ o.mem = mem \cup {f}
                                       /\ o.lost = lost \cup {f} /\ o.twice = twice \cup {"name"}
Copies(o)   == /\ fs # "NeFS" /\ o.end = "on"
               /\ \E f \in Blocks \ mem : \E g \in Blocks \ (mem \cup {f}) :
                    /\ o.ret = g /\ o.mem = mem \cup {f, g} /\ o.lost = lost \cup {f}
                    /\ o.twice = twice \cup {"name"}

LEMMA ScanOutcomes ==
  ASSUME NEW M, M \subseteq Blocks, Cardinality(M) + 2 <= Cardinality(Blocks),
         NEW raw \in (Blocks \ M) \cup {None}, raw # None => fs # "NeFS",
         NEW L, NEW T, NEW o \in Scan(raw, M, L, T)
  PROVE  /\ o.lost = L /\ o.twice = T /\ o.end \in Appended
         /\ \/ o.ret = None /\ o.mem = M
            \/ /\ fs # "NeFS" /\ o.end = "on"
               /\ \E g \in Blocks \ M : o.ret = g /\ o.mem = M \cup {g}
  <1> DEFINE Held == M \cup ({raw} \ {None})
  <1>0. Cardinality(M) \in Nat /\ Cardinality(Blocks) \in Nat
    BY CountOf
  <1>3. CASE \/ o = Ends(Held \ {raw}, L, T, "on")
             \/ o = Ends(M, L, T, "fault") \/ o = Ends(M, L, T, "on")
    <2>1. Held \ {raw} = M
      BY NoneOutside
    <2> QED
      BY <1>3, <2>1 DEF Ends, Found, Appended
  <1>4. CASE raw # None /\ o = Found(Fresh(Held), (Held \cup {Fresh(Held)}) \ {raw}, L, T, "on")
    <2>1. Held = M \cup {raw} /\ raw \in Blocks \ M
      BY <1>4
    <2>2. Cardinality(Held) = Cardinality(M) + 1 /\ Held \subseteq Blocks
      BY <1>0, <2>1, OneMore
    <2>3. Fresh(Held) \in Blocks \ Held
      <3> HIDE DEF Held
      <3> QED
        BY <1>0, <2>2, FreshIsFree
    <2> DEFINE f == Fresh(Held)
    <2>4. (Held \cup {f}) \ {raw} = M \cup {f}
      BY <2>1, <2>3
    <2>5. f \in Blocks \ M
      BY <2>3
    <2> HIDE DEF f, Held
    <2>6. o = Found(f, M \cup {f}, L, T, "on")
      BY <1>4, <2>4 DEF f
    <2> QED
      BY <1>4, <2>5, <2>6 DEF Found, Appended
  <1>5. \/ o = Ends(Held \ {raw}, L, T, "on")
        \/ o = Ends(M, L, T, "fault") \/ o = Ends(M, L, T, "on")
        \/ raw # None /\ o = Found(Fresh(Held), (Held \cup {Fresh(Held)}) \ {raw}, L, T, "on")
    <2> HIDE DEF Ends, Found, Fresh
    <2> QED
      BY DEF Scan
  <1> QED
    BY <1>3, <1>4, <1>5

LEMMA ComparedOutcomes ==
  ASSUME LoaderInv, Room(3), NEW raw \in ReadNamed(mem), NEW o \in Compared(raw)
  PROVE  (Names(o) \/ Copies(o)) /\ o.end \in Appended
  <1> DEFINE Held == mem \cup ({raw} \ {None})
  <1>0. mem \subseteq Blocks /\ Cardinality(mem) \in Nat /\ Cardinality(Blocks) \in Nat
        /\ Cardinality(mem) + 3 <= Cardinality(Blocks)
    BY CountOf DEF LoaderInv, Room
  <1>1. raw \in (Blocks \ mem) \cup {None} /\ (raw # None => fs # "NeFS")
    <2>1. Fresh(mem) \in Blocks \ mem
      BY <1>0, FreshIsFree
    <2> QED
      BY <2>1 DEF ReadNamed
  <1>2. Held \subseteq Blocks /\ Cardinality(Held) + 2 <= Cardinality(Blocks)
    <2>1. CASE raw = None
      <3>1. Held = mem
        BY <2>1
      <3> QED
        BY <1>0, <3>1
    <2>2. CASE raw \in Blocks \ mem
      <3>1. Held = mem \cup {raw}
        BY <2>2, NoneOutside
      <3>2. Cardinality(Held) = Cardinality(mem) + 1
        BY <1>0, <2>2, <3>1, OneMore
      <3> QED
        BY <1>0, <2>2, <3>1, <3>2
    <2> QED
      BY <1>1, <2>1, <2>2
  <1> DEFINE f == Object(Held)
  <1>3. f \in Blocks \ Held /\ BufferAgain(Held) = {"name"}
    <2> HIDE DEF Held
    <2> QED
      BY <1>2, NameMade
  <1> DEFINE M == mem \cup {f}
  <1>4. /\ f \in Blocks \ mem /\ M \subseteq Blocks
        /\ Cardinality(M) + 2 <= Cardinality(Blocks)
    <2>1. f \in Blocks \ mem
      BY <1>3
    <2> HIDE DEF f
    <2>2. Cardinality(M) = Cardinality(mem) + 1
      BY <1>0, <2>1, OneMore
    <2> QED
      BY <1>0, <2>1, <2>2
  <1>5. raw \in (Blocks \ M) \cup {None}
    BY <1>1, <1>3, NoneOutside
  <1>6. \/ o \in Scan(raw, M, lost \cup {f}, twice \cup {"name"})
        \/ \E e \in Appended : o = Ends(M, lost \cup {f}, twice \cup {"name"}, e)
    <2> HIDE DEF Scan, Ends
    <2>1. \/ o \in Scan(raw, M, lost \cup {f}, twice \cup BufferAgain(Held))
          \/ \E e \in Appended : o = Ends(M, lost \cup {f}, twice \cup BufferAgain(Held), e)
      BY DEF Compared
    <2> QED
      BY <1>3, <2>1
  <1> HIDE DEF f
  <1>7. CASE o \in Scan(raw, M, lost \cup {f}, twice \cup {"name"})
    <2> HIDE DEF M
    <2>1. /\ o.lost = lost \cup {f} /\ o.twice = twice \cup {"name"} /\ o.end \in Appended
          /\ \/ o.ret = None /\ o.mem = M
             \/ /\ fs # "NeFS" /\ o.end = "on"
                /\ \E g \in Blocks \ M : o.ret = g /\ o.mem = M \cup {g}
      BY <1>1, <1>4, <1>5, <1>7, ScanOutcomes
    <2>2. CASE o.ret = None /\ o.mem = M
      BY <1>4, <2>1, <2>2 DEF Names, M
    <2>3. ASSUME fs # "NeFS", o.end = "on", NEW g \in Blocks \ M, o.ret = g, o.mem = M \cup {g}
          PROVE  Copies(o)
      <3>1. o.mem = mem \cup {f, g} /\ g \in Blocks \ (mem \cup {f})
        BY <2>3 DEF M
      <3> QED
        BY <1>4, <2>1, <2>3, <3>1 DEF Copies
    <2> QED
      BY <2>1, <2>2, <2>3
  <1>8. CASE \E e \in Appended : o = Ends(M, lost \cup {f}, twice \cup {"name"}, e)
    BY <1>4, <1>8 DEF Names, Ends, Found
  <1> QED
    BY <1>6, <1>7, <1>8

LEMMA FindOutcomes ==
  ASSUME LoaderInv, Room(3), NEW sym, NEW o \in FindSymbol(sym)
  PROVE  /\ o.end \in Appended
         /\ \/ Nothing(o) \/ Names(o) \/ Copies(o)
            \/ sym \notin {"kPefCode", "kPefData", "kPefZero"} /\ Loses(o)
  <1>1. CASE o = Ends(mem, lost, twice, "on") \/ o = Ends(mem, lost, twice, "fault")
    BY <1>1 DEF Ends, Found, Nothing, Appended
  <1>2. ASSUME NEW raw \in ReadNamed(mem), sym \notin {"kPefCode", "kPefData", "kPefZero"},
               o = Ends(mem \cup ({raw} \ {None}), lost \cup ({raw} \ {None}), twice, "on")
        PROVE  (Nothing(o) \/ Loses(o)) /\ o.end \in Appended
    <2>1. mem \subseteq Blocks /\ Cardinality(mem) \in Nat /\ Cardinality(Blocks) \in Nat
          /\ Cardinality(mem) + 3 <= Cardinality(Blocks)
      BY CountOf DEF LoaderInv, Room
    <2>2. Fresh(mem) \in Blocks \ mem
      BY <2>1, FreshIsFree
    <2>3. raw = None \/ raw \in Blocks \ mem
      BY <2>2 DEF ReadNamed
    <2>4. CASE raw = None
      BY <1>2, <2>4 DEF Nothing, Ends, Found, Appended
    <2>5. CASE raw \in Blocks \ mem
      <3>1. {raw} \ {None} = {raw}
        BY <2>5, NoneOutside
      <3> QED
        BY <1>2, <2>5, <3>1 DEF Loses, Ends, Found, Appended
    <2> QED
      BY <2>3, <2>4, <2>5
  <1>3. \/ o = Ends(mem, lost, twice, "on") \/ o = Ends(mem, lost, twice, "fault")
        \/ \E raw \in ReadNamed(mem) :
             \/ /\ sym \notin {"kPefCode", "kPefData", "kPefZero"}
                /\ o = Ends(mem \cup ({raw} \ {None}), lost \cup ({raw} \ {None}), twice, "on")
             \/ o \in Compared(raw)
    <2> HIDE DEF Ends, Compared, ReadNamed
    <2> QED
      BY DEF FindSymbol
  <1> QED
    BY <1>1, <1>2, <1>3, ComparedOutcomes

LEMMA LoaderBegin == LoaderInit => LoaderInv
  <1> SUFFICES ASSUME LoaderInit PROVE LoaderInv
    OBVIOUS
  <1> USE DEF LoaderInit
  <1>1. loader \in LoaderStates /\ ~loader.made /\ loader.blob = None
    BY DEF NoLoader, LoaderStates
  <1>2. Disjoint
    BY <1>1 DEF Disjoint, BlocksAccounted
  <1>3. pc \notin DOMAIN Need
    BY DEF Need
  <1>4. ~proc.made
    BY DEF NoProcess
  <1> QED
    BY <1>1, <1>2, <1>3, <1>4 DEF LoaderInv, NoProcessFromNeFS, FreedOnce

\* A step outside rtl_create_process.
LEMMA IdleStep ==
  ASSUME LoaderInv, mem' \subseteq Blocks, twice' \subseteq {"name"}, FreedOnce',
         loader' \in LoaderStates, ~loader'.made => loader' = NoLoader,
         Disjoint', pc' \in {"idle", "fault", "astray"}, UNCHANGED <<fs, image>>,
         NoProcessFromNeFS'
  PROVE  LoaderInv'
  <1>1. pc' \notin DOMAIN Need
    BY DEF Need
  <1> QED
    BY <1>1 DEF LoaderInv, Need

LEMMA LoadPathKeeps ==
  ASSUME LoaderInv, LoadPath
  PROVE  LoaderInv'
  <1>0. /\ pc = "idle" /\ loader.blob = None
        /\ UNCHANGED <<fs, image, proc, copies>>
        /\ NoProcessFromNeFS'
    BY DEF LoadPath, LoaderInv, NoLoader, NoProcessFromNeFS
  <1>1. mem = copies \cup lost /\ copies \cap lost = {} /\ mem \subseteq Blocks
    BY <1>0, NoneOutside DEF LoaderInv, Disjoint, BlocksAccounted
  <1>2. Cardinality(mem) + 3 <= Cardinality(Blocks) /\ Cardinality(mem) \in Nat
        /\ Cardinality(Blocks) \in Nat
    BY <1>1, CountOf DEF LoadPath, Room
  <1> DEFINE s == Object(mem)
             M == mem \cup {s}
  <1>3. s \in Blocks \ mem /\ BufferAgain(mem) = {"name"}
    BY <1>1, <1>2, NameMade
  <1>4. M \subseteq Blocks /\ Fresh(M) \in Blocks \ M
    <2> HIDE DEF s
    <2>1. M \subseteq Blocks /\ Cardinality(M) = Cardinality(mem) + 1
      BY <1>1, <1>3, OneMore
    <2> HIDE DEF M
    <2> QED
      BY <1>2, <2>1, FreshIsFree
  <1>5. \/ pc' = "fault" /\ UNCHANGED <<mem, loader, twice, lost>>
        \/ /\ lost' = lost \cup {s} /\ twice' = twice \cup {"name"}
           /\ \E b \in {None, Fresh(M)} :
                \/ pc' = "fault" /\ mem' = M /\ UNCHANGED loader
                \/ BadBlob(M, b) /\ UNCHANGED pc
                \/ /\ b # None /\ UNCHANGED pc /\ mem' = M \cup {b}
                   /\ loader' = [made |-> TRUE, blob |-> b, bad |-> FALSE,
                                 fat |-> image.magic = "fat", fFile |-> "open"]
    <2>1. ReadNamed(M) \subseteq {None, Fresh(M)}
      BY DEF ReadNamed
    <2>2. \/ pc' = "fault" /\ UNCHANGED <<mem, loader, twice, lost>>
          \/ /\ lost' = lost \cup {s} /\ twice' = twice \cup BufferAgain(mem)
             /\ \E b \in ReadNamed(M) :
                  \/ pc' = "fault" /\ mem' = M /\ UNCHANGED loader
                  \/ BadBlob(M, b) /\ UNCHANGED pc
                  \/ /\ b # None /\ UNCHANGED pc /\ mem' = M \cup {b}
                     /\ loader' = [made |-> TRUE, blob |-> b, bad |-> FALSE,
                                   fat |-> image.magic = "fat", fFile |-> "open"]
      <3> HIDE DEF BadBlob, ReadNamed, BufferAgain
      <3> QED
        BY DEF LoadPath
    <2> HIDE DEF BadBlob, ReadNamed, M, s
    <2> QED
      BY <1>3, <2>1, <2>2
  <1>6. CASE pc' = "fault" /\ UNCHANGED <<mem, loader, twice, lost>>
    <2>1. Disjoint' /\ FreedOnce'
      BY <1>0, <1>6 DEF LoaderInv, Disjoint, BlocksAccounted, FreedOnce
    <2> QED
      BY <1>0, <1>6, <2>1, IdleStep DEF LoaderInv
  <1> HIDE DEF s
  <1>7. ASSUME lost' = lost \cup {s}, twice' = twice \cup {"name"}
        PROVE  /\ twice' \subseteq {"name"} /\ FreedOnce'
               /\ copies' \cap lost' = {} /\ M = copies' \cup lost'
    BY <1>0, <1>1, <1>3, <1>7 DEF LoaderInv, FreedOnce
  <1>8. ASSUME lost' = lost \cup {s}, twice' = twice \cup {"name"},
               pc' = "fault", mem' = M, UNCHANGED loader
        PROVE  LoaderInv'
    <2>1. Disjoint'
      BY <1>0, <1>4, <1>7, <1>8, NoneOutside DEF Disjoint, BlocksAccounted
    <2> QED
      BY <1>0, <1>4, <1>7, <1>8, <2>1, IdleStep DEF LoaderInv
  <1>9. ASSUME lost' = lost \cup {s}, twice' = twice \cup {"name"},
               NEW b \in {None, Fresh(M)}, BadBlob(M, b), UNCHANGED pc
        PROVE  LoaderInv'
    <2>1. mem' = M
      BY <1>4, <1>9, NoneOutside DEF BadBlob
    <2>2. loader' \in LoaderStates /\ loader'.blob = None /\ loader'.made
      BY <1>9 DEF BadBlob, LoaderStates
    <2> HIDE DEF M
    <2>3. Disjoint'
      BY <1>4, <1>7, <1>9, <2>1, <2>2, NoneOutside DEF Disjoint, BlocksAccounted
    <2> QED
      BY <1>0, <1>4, <1>7, <1>9, <2>1, <2>2, <2>3, IdleStep
  <1>10. ASSUME lost' = lost \cup {s}, twice' = twice \cup {"name"},
                NEW b \in Blocks \ M, UNCHANGED pc, mem' = M \cup {b},
                loader' = [made |-> TRUE, blob |-> b, bad |-> FALSE,
                           fat |-> image.magic = "fat", fFile |-> "open"]
         PROVE  LoaderInv'
    <2>1. loader' \in LoaderStates /\ loader'.blob = b /\ loader'.made
      <3>1. (image.magic = "fat") \in BOOLEAN
        OBVIOUS
      <3> HIDE DEF LoaderInv
      <3> QED
        BY <1>10, <3>1 DEF LoaderStates
    <2> HIDE DEF M
    <2>2. Disjoint'
      BY <1>4, <1>7, <1>10, <2>1, NoneOutside DEF Disjoint, BlocksAccounted
    <2> QED
      BY <1>0, <1>4, <1>7, <1>10, <2>1, <2>2, IdleStep
  <1> HIDE DEF M
  <1> QED
    BY <1>4, <1>5, <1>6, <1>8, <1>9, <1>10

LEMMA LoadBlobKeeps ==
  ASSUME LoaderInv, LoadBlob
  PROVE  LoaderInv'
  <1>0. /\ pc = "idle" /\ loader.blob = None
        /\ UNCHANGED <<fs, image, twice, pc, proc, copies, lost>>
        /\ NoProcessFromNeFS'
    BY DEF LoadBlob, LoaderInv, NoLoader, NoProcessFromNeFS
  <1>1. mem = copies \cup lost /\ copies \cap lost = {} /\ mem \subseteq Blocks
    BY <1>0, NoneOutside DEF LoaderInv, Disjoint, BlocksAccounted
  <1> DEFINE b == Fresh(mem)
  <1>2. b \in Blocks \ mem
    <2>1. Cardinality(mem) + 1 <= Cardinality(Blocks)
      BY DEF LoadBlob, Room
    <2> QED
      BY <1>1, <2>1, FreshIsFree
  <1>3. mem' = mem \cup {b}
    BY DEF LoadBlob
  <1>4. loader' \in LoaderStates /\ loader'.blob = b /\ loader'.made
    <2>1. PICK fat \in BOOLEAN, f \in Undefined :
            loader' = [made |-> TRUE, blob |-> b, bad |-> FALSE, fat |-> fat, fFile |-> f]
      BY DEF LoadBlob
    <2> QED
      BY <1>2, <2>1 DEF LoaderStates, Undefined
  <1> HIDE DEF b
  <1>5. Disjoint'
    BY <1>0, <1>1, <1>2, <1>3, <1>4, NoneOutside DEF Disjoint, BlocksAccounted
  <1>6. FreedOnce'
    BY <1>0 DEF LoaderInv, FreedOnce
  <1> QED
    BY <1>0, <1>1, <1>2, <1>3, <1>4, <1>5, <1>6, IdleStep DEF LoaderInv

LEMMA DestroyKeeps ==
  ASSUME LoaderInv, Destroy
  PROVE  LoaderInv'
  <1>0. /\ pc' \in {"idle", "fault"} /\ loader' = NoLoader
        /\ mem' = mem \ {loader.blob}
        /\ UNCHANGED <<fs, image, proc, copies, lost>>
        /\ NoProcessFromNeFS'
    BY DEF Destroy, LoaderInv, NoProcessFromNeFS
  <1>1. /\ loader.blob \notin copies \cup lost /\ copies \cap lost = {}
        /\ mem = ({loader.blob} \ {None}) \cup copies \cup lost /\ mem \subseteq Blocks
    BY DEF LoaderInv, Disjoint, BlocksAccounted
  <1>2. ~FreedTwice(mem, loader.blob)
    BY <1>1 DEF FreedTwice
  <1>3. twice' \subseteq {"name"} /\ FreedOnce'
    <2>1. twice' = twice
      BY <1>2 DEF Destroy
    <2> QED
      BY <1>0, <2>1 DEF LoaderInv, FreedOnce
  <1>4. loader' \in LoaderStates /\ loader'.blob = None
    BY <1>0 DEF NoLoader, LoaderStates
  <1>5. Disjoint'
    BY <1>0, <1>1, <1>4, NoneOutside DEF Disjoint, BlocksAccounted
  <1> QED
    BY <1>0, <1>1, <1>3, <1>4, <1>5, IdleStep

LEMMA SymbolKeeps ==
  ASSUME LoaderInv, NEW sym \in Kinds, Symbol(sym)
  PROVE  LoaderInv'
  <1>0. /\ Room(3)
        /\ UNCHANGED <<fs, image, loader, proc>>
        /\ NoProcessFromNeFS'
    <2>1. Cardinality(mem) \in Nat /\ Cardinality(Blocks) \in Nat
      BY CountOf DEF LoaderInv
    <2>2. Room(3)
      BY <2>1 DEF Symbol, Room, Spare
    <2> QED
      BY <2>2 DEF Symbol, LoaderInv, NoProcessFromNeFS
  <1>1. PICK o \in FindSymbol(sym) : /\ mem' = o.mem /\ lost' = o.lost /\ twice' = o.twice
                                      /\ copies' = copies \cup ({o.ret} \ {None})
                                      /\ pc' = IF o.end = "on" THEN pc ELSE o.end
    BY DEF Symbol
  <1>2. (Nothing(o) \/ Names(o) \/ Copies(o) \/ Loses(o)) /\ o.end \in Appended
    BY <1>0, FindOutcomes
  <1>3. /\ loader.blob \notin copies \cup lost /\ copies \cap lost = {}
        /\ mem = ({loader.blob} \ {None}) \cup copies \cup lost /\ mem \subseteq Blocks
    BY DEF LoaderInv, Disjoint, BlocksAccounted
  <1>4. Disjoint' /\ mem' \subseteq Blocks
    <2>1. CASE Nothing(o)
      BY <1>0, <1>1, <1>3, <2>1 DEF Nothing, Disjoint, BlocksAccounted
    <2>2. CASE Copies(o)
      BY <1>0, <1>1, <1>3, <2>2, NoneOutside DEF Copies, Disjoint, BlocksAccounted
    <2>3. CASE Loses(o) \/ Names(o)
      BY <1>0, <1>1, <1>3, <2>3, NoneOutside DEF Loses, Names, Disjoint, BlocksAccounted
    <2> QED
      BY <1>2, <2>1, <2>2, <2>3
  <1>5. twice' \subseteq {"name"} /\ FreedOnce'
    <2>1. twice \subseteq {"name"} /\ (copies # {} \/ proc.made => "name" \in twice)
      BY DEF LoaderInv, FreedOnce
    <2>2. twice' \subseteq {"name"} /\ twice \subseteq twice' /\ (o.ret # None => "name" \in twice')
      BY <1>1, <1>2, <2>1 DEF Nothing, Names, Copies, Loses
    <2> QED
      BY <1>0, <1>1, <2>1, <2>2 DEF FreedOnce
  <1>6. pc' \in {"idle", "fault", "astray"}
    BY <1>1, <1>2 DEF Symbol, Appended
  <1> QED
    BY <1>0, <1>4, <1>5, <1>6, IdleStep DEF LoaderInv

LEMMA ReleaseKeeps ==
  ASSUME LoaderInv, NEW b, Release(b)
  PROVE  LoaderInv'
  <1>0. /\ pc' = "idle" /\ b \in copies /\ copies' = copies \ {b} /\ mem' = mem \ {b}
        /\ UNCHANGED <<fs, image, twice, loader, proc, lost>>
        /\ NoProcessFromNeFS'
    BY DEF Release, LoaderInv, NoProcessFromNeFS
  <1>1. Disjoint' /\ mem' \subseteq Blocks /\ FreedOnce'
    BY <1>0 DEF LoaderInv, Disjoint, BlocksAccounted, FreedOnce
  <1> QED
    BY <1>0, <1>1, IdleStep DEF LoaderInv

\* The room a call of FindSymbol leaves, and who has the blocks after one.
LEMMA CallCounts ==
  ASSUME LoaderInv, NEW o, Nothing(o) \/ Names(o) \/ Copies(o)
  PROVE  /\ o.mem \subseteq Blocks /\ Cardinality(o.mem) \in Nat
         /\ Cardinality(o.mem) <= Cardinality(mem) + 2
  <1>1. mem \subseteq Blocks /\ Cardinality(mem) \in Nat
    BY CountOf DEF LoaderInv
  <1>2. CASE Nothing(o)
    BY <1>1, <1>2 DEF Nothing
  <1>3. CASE Names(o)
    <2>1. PICK f \in Blocks \ mem : o.mem = mem \cup {f}
      BY <1>3 DEF Names
    <2> QED
      BY <1>1, <2>1, OneMore
  <1>4. CASE Copies(o)
    <2>1. PICK f \in Blocks \ mem : \E g \in Blocks \ (mem \cup {f}) : o.mem = mem \cup {f, g}
      BY <1>4 DEF Copies
    <2> DEFINE H == mem \cup {f}
    <2>2. H \subseteq Blocks /\ Cardinality(H) = Cardinality(mem) + 1
      BY <1>1, <2>1, OneMore
    <2>3. PICK g \in Blocks \ H : o.mem = H \cup {g}
      BY <2>1
    <2> HIDE DEF H
    <2>4. Cardinality(H \cup {g}) = Cardinality(H) + 1
      BY <2>2, OneMore
    <2> QED
      BY <1>1, <2>2, <2>3, <2>4
  <1> QED
    BY <1>2, <1>3, <1>4

LEMMA CreateStartKeeps ==
  ASSUME LoaderInv, CreateStart
  PROVE  LoaderInv'
  <1>0. /\ Cardinality(mem) + 13 <= Cardinality(Blocks) /\ pc = "idle"
        /\ UNCHANGED <<fs, image, loader>>
    BY DEF CreateStart, Room
  <1>1. Cardinality(mem) \in Nat /\ Cardinality(Blocks) \in Nat
    BY CountOf DEF LoaderInv
  <1>2. Room(3)
    BY <1>0, <1>1 DEF Room
  <1>3. PICK o \in FindSymbol("kPefCode") :
          /\ mem' = o.mem /\ lost' = o.lost /\ twice' = o.twice
          /\ IF o.end # "on" THEN pc' = o.end /\ UNCHANGED <<proc, copies>>
             ELSE IF o.ret = None THEN UNCHANGED <<pc, proc, copies>>
             ELSE pc' = "stack" /\ copies' = copies \cup {o.ret}
    BY DEF CreateStart
  <1>4. (Nothing(o) \/ Names(o) \/ Copies(o)) /\ o.end \in Appended
    BY <1>2, FindOutcomes
  <1>5. /\ loader.blob \notin copies \cup lost /\ copies \cap lost = {}
        /\ mem = ({loader.blob} \ {None}) \cup copies \cup lost /\ mem \subseteq Blocks
        /\ twice \subseteq {"name"} /\ (copies # {} \/ proc.made => "name" \in twice)
    BY DEF LoaderInv, Disjoint, BlocksAccounted, FreedOnce
  <1>6. CASE /\ Nothing(o) \/ Names(o)
             /\ pc' \in {"idle", "fault", "astray"} /\ UNCHANGED <<proc, copies>>
    <2>1. Disjoint' /\ mem' \subseteq Blocks
      <3>1. CASE Nothing(o)
        BY <1>0, <1>3, <1>5, <1>6, <3>1 DEF Nothing, Disjoint, BlocksAccounted
      <3>2. CASE Names(o)
        BY <1>0, <1>3, <1>5, <1>6, <3>2, NoneOutside DEF Names, Disjoint, BlocksAccounted
      <3> QED
        BY <1>6, <3>1, <3>2
    <2>2. NoProcessFromNeFS'
      BY <1>0, <1>6 DEF LoaderInv, NoProcessFromNeFS
    <2>3. twice' \subseteq {"name"} /\ FreedOnce'
      BY <1>3, <1>5, <1>6 DEF Nothing, Names, FreedOnce
    <2> QED
      BY <1>0, <1>6, <2>1, <2>2, <2>3, IdleStep DEF LoaderInv
  <1>7. CASE Copies(o) /\ pc' = "stack" /\ copies' = copies \cup {o.ret}
    <2>1. Disjoint' /\ mem' \subseteq Blocks
      BY <1>0, <1>3, <1>5, <1>7, NoneOutside DEF Copies, Disjoint, BlocksAccounted
    <2>2. NoProcessFromNeFS'
      BY <1>0, <1>7 DEF Copies, NoProcessFromNeFS
    <2>3. Cardinality(mem') + Need[pc'] <= Cardinality(Blocks)
      <3>1. Need[pc'] = 11
        BY <1>7 DEF Need
      <3>2. Cardinality(mem') \in Nat /\ Cardinality(mem') <= Cardinality(mem) + 2
        BY <1>3, <1>4, CallCounts
      <3> QED
        BY <1>0, <1>1, <3>1, <3>2
    <2>4. twice' \subseteq {"name"} /\ FreedOnce'
      BY <1>3, <1>5, <1>7 DEF Copies, FreedOnce
    <2> QED
      BY <1>0, <1>7, <2>1, <2>2, <2>3, <2>4 DEF LoaderInv
  <1>8. Copies(o) => o.end = "on" /\ o.ret # None
    BY NoneOutside DEF Copies
  <1>9. Nothing(o) \/ Names(o) => o.ret = None
    BY DEF Nothing, Names
  <1>10. o.end # "on" => o.end \in {"fault", "astray"}
    BY <1>4 DEF Appended
  <1> QED
    BY <1>0, <1>3, <1>4, <1>6, <1>7, <1>8, <1>9, <1>10

\* One question about the sizes and the name keeps two blocks at most.
LEMMA CreateFieldKeeps ==
  ASSUME LoaderInv, CreateField
  PROVE  LoaderInv'
  <1>0. /\ pc \in {"stack", "heap", "name", "name2", "name3"}
        /\ UNCHANGED <<fs, image, loader, proc, copies>>
    BY DEF CreateField
  <1>1. Cardinality(mem) \in Nat /\ Cardinality(Blocks) \in Nat
    BY CountOf DEF LoaderInv
  <1>2. /\ Need[pc] \in 3 .. 11 /\ Cardinality(mem) + Need[pc] <= Cardinality(Blocks)
        /\ Room(3)
    <2>1. Need[pc] \in 3 .. 11 /\ pc \in DOMAIN Need
      BY <1>0 DEF Need
    <2>2. Cardinality(mem) + Need[pc] <= Cardinality(Blocks)
      BY <2>1 DEF LoaderInv
    <2> QED
      BY <1>1, <2>1, <2>2 DEF Room
  <1>3. PICK o \in FindSymbol("kPefData") :
          /\ mem' = o.mem /\ twice' = o.twice
          /\ lost' = o.lost \cup ({o.ret} \ {None})
          /\ pc' \in
               IF o.end # "on" THEN {o.end}
               ELSE CASE pc = "stack" -> IF o.ret = None THEN {"fault", "heap"} ELSE {"heap"}
                      [] pc = "heap"  -> IF o.ret = None THEN {"fault", "name"} ELSE {"name"}
                      [] pc = "name"  -> IF o.ret = None THEN {"spawn"} ELSE {"name2"}
                      [] pc = "name2" -> {"name3"}
                      [] pc = "name3" -> {"spawn"}
    BY DEF CreateField
  <1>4. (Nothing(o) \/ Names(o) \/ Copies(o)) /\ o.end \in Appended
    BY <1>2, FindOutcomes
  <1>5. /\ loader.blob \notin copies \cup lost /\ copies \cap lost = {}
        /\ mem = ({loader.blob} \ {None}) \cup copies \cup lost /\ mem \subseteq Blocks
        /\ twice \subseteq {"name"} /\ (copies # {} \/ proc.made => "name" \in twice)
    BY DEF LoaderInv, Disjoint, BlocksAccounted, FreedOnce
  <1>6. Disjoint' /\ mem' \subseteq Blocks
    <2>1. CASE Nothing(o)
      BY <1>0, <1>3, <1>5, <2>1 DEF Nothing, Disjoint, BlocksAccounted
    <2>2. CASE Copies(o)
      BY <1>0, <1>3, <1>5, <2>2, NoneOutside DEF Copies, Disjoint, BlocksAccounted
    <2>3. CASE Names(o)
      BY <1>0, <1>3, <1>5, <2>3, NoneOutside DEF Names, Disjoint, BlocksAccounted
    <2> QED
      BY <1>4, <2>1, <2>2, <2>3
  <1>7. pc' \in {"heap", "name", "name2", "name3", "spawn", "fault", "astray"}
        /\ (pc' \notin {"spawn", "fault", "astray"} => Need[pc'] = Need[pc] - 2)
    <2>1. \/ pc' \in {"spawn", "fault", "astray"}
          \/ pc = "stack" /\ pc' = "heap"
          \/ pc = "heap" /\ pc' = "name"
          \/ pc = "name" /\ pc' = "name2"
          \/ pc = "name2" /\ pc' = "name3"
      <3>1. CASE o.end # "on"
        BY <1>3, <1>4, <3>1 DEF Appended
      <3>2. CASE o.end = "on" /\ pc = "stack"
        BY <1>3, <3>2
      <3>3. CASE o.end = "on" /\ pc = "heap"
        BY <1>3, <3>3
      <3>4. CASE o.end = "on" /\ pc = "name"
        BY <1>3, <3>4
      <3>5. CASE o.end = "on" /\ pc \in {"name2", "name3"}
        BY <1>3, <3>5
      <3> QED
        BY <1>0, <3>1, <3>2, <3>3, <3>4, <3>5
    <2>2. /\ Need["stack"] = 11 /\ Need["heap"] = 9 /\ Need["name"] = 7
          /\ Need["name2"] = 5 /\ Need["name3"] = 3
      BY DEF Need
    <2> HIDE DEF Need
    <2> QED
      BY <2>1, <2>2
  <1>8. pc' \in DOMAIN Need => Cardinality(mem') + Need[pc'] <= Cardinality(Blocks)
    <2> SUFFICES ASSUME pc' \in DOMAIN Need
                 PROVE  Cardinality(mem') + Need[pc'] <= Cardinality(Blocks)
      OBVIOUS
    <2>1. pc' \notin {"spawn", "fault", "astray"}
      BY DEF Need
    <2>2. Need[pc'] = Need[pc] - 2
      BY <1>7, <2>1
    <2>3. Cardinality(mem') \in Nat /\ Cardinality(mem') <= Cardinality(mem) + 2
      BY <1>3, <1>4, CallCounts
    <2> QED
      BY <1>1, <1>2, <2>2, <2>3
  <1>9. NoProcessFromNeFS' /\ twice' \subseteq {"name"} /\ FreedOnce'
    <2>1. twice' \subseteq {"name"} /\ twice \subseteq twice'
      BY <1>3, <1>4, <1>5 DEF Nothing, Names, Copies
    <2> QED
      BY <1>0, <1>5, <2>1 DEF LoaderInv, NoProcessFromNeFS, FreedOnce
  <1> QED
    BY <1>0, <1>6, <1>7, <1>8, <1>9 DEF LoaderInv

LEMMA LoaderKept == LoaderInv /\ [Next]_vars => LoaderInv'
  <1> SUFFICES ASSUME LoaderInv, [Next]_vars PROVE LoaderInv'
    OBVIOUS
  <1>1. CASE UNCHANGED loaderVars
    BY <1>1 DEF loaderVars, LoaderInv, Disjoint, BlocksAccounted, NoProcessFromNeFS, FreedOnce
  <1>2. CASE CreateSpawn
    <2>1. /\ pc' = "idle" /\ UNCHANGED <<fs, image, mem, twice, loader, copies, lost>>
          /\ (proc'.made => proc.made)
      BY <1>2 DEF CreateSpawn, NoProcess
    <2>2. Disjoint' /\ NoProcessFromNeFS' /\ FreedOnce'
      BY <2>1 DEF LoaderInv, Disjoint, BlocksAccounted, NoProcessFromNeFS, FreedOnce
    <2> QED
      BY <2>1, <2>2, IdleStep DEF LoaderInv
  <1>3. LoaderNext \/ UNCHANGED loaderVars
    BY DEF Next, vars
  <1> QED
    BY <1>1, <1>2, <1>3, LoadPathKeeps, LoadBlobKeeps, DestroyKeeps, SymbolKeeps, ReleaseKeeps,
       CreateStartKeeps, CreateFieldKeeps DEF LoaderNext

\* LoadsSound: no block of a program is freed twice, only the buffers of the
\* names FindSymbol makes are, every block is somebody's or known to be lost,
\* NeFS gives no process, a free of somebody else's block stops the kernel, Exit
\* leaves what it leaves, and no process gets a library object (PEFCodeMgr.cc:95
\* and :164, UserProcessScheduler.cc:222, IPEFDLLObject.cc): for every heap with
\* room for what a call takes.
THEOREM LoadsAreSound == Spec => []LoadsSound
  <1>1. Init => LoaderInv /\ MemoryInv
    BY LoaderBegin, MemoryBegin DEF Init
  <1>2. LoaderInv /\ MemoryInv => LoadsSound
    BY DEF LoaderInv, MemoryInv, Disjoint, LoadsSound, FreedOnce, HarmStops, ExitLeaves,
           NoLibrary
  <1> QED
    BY <1>1, <1>2, LoaderKept, MemoryKept, PTL DEF Spec

-----------------------------------------------------------------------------
(***************************************************************************)
(* The tables of the firmware                                              *)
(***************************************************************************)

TablesInv ==
    /\ xsdt.length \in 0 .. MaxLength /\ \E n \in 1 .. 2 : xsdt.tables \in [1 .. n -> Signatures]
    /\ found \in [is : {"none", "stopped", "missing", "found"}, at : Nat]
    /\ entries \in {0, Count(xsdt.length)} /\ entries \in 0 .. Wide
    /\ FirstFound
    /\ smp.end \in {"none", "alone", "fault", "aware"}
    /\ smp.end = "aware" => \E m \in Madts : smp = Cores(m)

\* The count of entries (ACPIFactoryInterface.cc:53) stays inside the table when
\* the table is as long as its header; shorter ones wrap.
LEMMA CountInside ==
  ASSUME NEW len \in 0 .. MaxLength
  PROVE  /\ Count(len) \in 0 .. Wide
         /\ len >= Header => Count(len) * Entry + Header <= len
  <1> USE TableSizes
  <1>1. (len - Header) % Wide \in 0 .. Wide - 1
    OBVIOUS
  <1>2. ASSUME NEW a \in Nat, NEW b \in Nat \ {0}
        PROVE  a \div b \in 0 .. a /\ (a \div b) * b <= a
    <2>1. a = b * (a \div b) + (a % b) /\ a % b \in 0 .. b - 1 /\ a \div b \in Int
      BY <1>2
    <2>2. a \div b >= 0
      BY <1>2
    <2>3. (a \div b) * b <= a
      BY <2>1, <2>2
    <2>4. a \div b <= (a \div b) * b
      BY <1>2, <2>1, <2>2
    <2> QED
      BY <2>1, <2>2, <2>3, <2>4
  <1>3. Count(len) \in 0 .. Wide
    BY <1>1, <1>2 DEF Count
  <1>4. CASE len >= Header
    <2>1. (len - Header) % Wide = len - Header /\ len - Header \in Nat
      BY <1>4
    <2>2. Count(len) = (len - Header) \div Entry
      BY <2>1 DEF Count
    <2>3. Count(len) * Entry <= len - Header
      BY <1>2, <2>1, <2>2
    <2> QED
      BY <1>3, <2>3
  <1> QED
    BY <1>3, <1>4

LEMMA TablesBegin == TablesInit => TablesInv
  <1> SUFFICES ASSUME TablesInit PROVE TablesInv
    OBVIOUS
  <1> USE DEF TablesInit
  <1>1. xsdt.length \in 0 .. MaxLength /\ \E n \in 1 .. 2 : xsdt.tables \in [1 .. n -> Signatures]
    OBVIOUS
  <1>2. entries \in 0 .. Wide
    BY TableSizes
  <1>3. FirstFound
    BY DEF FirstFound
  <1>4. smp.end = "none"
    OBVIOUS
  <1> QED
    BY <1>1, <1>2, <1>3, <1>4 DEF TablesInv

\* A step that finds something else, or nothing, and leaves the walk alone.
LEMMA FindStep ==
  ASSUME TablesInv, UNCHANGED <<xsdt, smp>>,
         found' \in [is : {"none", "stopped", "missing", "found"}, at : Nat],
         entries' \in {0, Count(xsdt.length)}, entries' \in 0 .. Wide, FirstFound'
  PROVE  TablesInv'
  BY DEF TablesInv, Count, Cores, Walked, Stops, Lapics, Madts

LEMMA FindKeeps ==
  ASSUME TablesInv, Find
  PROVE  TablesInv'
  <1> DEFINE n == Count(xsdt.length)
  <1>0. UNCHANGED <<xsdt, smp>>
    BY DEF Find
  <1>1. n \in 0 .. Wide /\ n \in Nat
    BY CountInside, TableSizes DEF TablesInv
  <1>2. CASE n < 1
    <2>1. entries' = entries /\ found' = [found EXCEPT !.is = "stopped"]
      BY <1>2 DEF Find
    <2>2. found' \in [is : {"none", "stopped", "missing", "found"}, at : Nat]
          /\ found'.is = "stopped"
      BY <2>1 DEF TablesInv
    <2> QED
      BY <1>0, <2>1, <2>2, FindStep DEF TablesInv, FirstFound
  <1>3. CASE ~(n < 1)
    <2>1. entries' = n
      BY <1>3 DEF Find
    <2>2. CASE found' = [is |-> "missing", at |-> 0]
      <3>1. /\ found' \in [is : {"none", "stopped", "missing", "found"}, at : Nat]
            /\ found'.is # "found"
        BY <2>2
      <3>2. FirstFound'
        BY <3>1 DEF FirstFound
      <3> QED
        BY <1>0, <1>1, <2>1, <3>1, <3>2, FindStep
    <2>3. CASE Hits(n) # {} /\ found' = [is |-> "found", at |-> FirstHit(Hits(n))]
      <3>1. PICK m \in 1 .. 2 : xsdt.tables \in [1 .. m -> Signatures]
        BY DEF TablesInv
      <3>2. Len(xsdt.tables) = m
        BY <3>1
      <3>3. Hits(n) = {i \in 1 .. m : i <= n /\ xsdt.tables[i] = "APIC"}
        BY <3>2 DEF Hits
      <3> DEFINE h == Min(Hits(n))
      <3>4. h \in Hits(n) /\ \A y \in Hits(n) : h <= y
        BY <2>3, <3>3, MinIs
      <3> HIDE DEF h
      <3>5. found'.is = "found" /\ found'.at = h
        BY <2>3 DEF FirstHit, h
      <3>6. h \in 1 .. m /\ h <= n /\ xsdt.tables[h] = "APIC"
        BY <3>3, <3>4
      <3>7. ASSUME NEW j \in 1 .. h - 1 PROVE xsdt.tables[j] # "APIC"
        <4>1. j \in 1 .. m /\ j <= n /\ ~(h <= j)
          BY <1>1, <3>6
        <4> QED
          BY <3>3, <3>4, <4>1
      <3>8. FirstFound'
        BY <1>0, <2>1, <3>5, <3>6, <3>7 DEF FirstFound
      <3>9. found' \in [is : {"none", "stopped", "missing", "found"}, at : Nat]
        BY <2>3, <3>6 DEF FirstHit, h
      <3> QED
        BY <1>0, <1>1, <2>1, <3>8, <3>9, FindStep
    <2> QED
      BY <1>3, <2>2, <2>3 DEF Find
  <1> QED
    BY <1>2, <1>3

LEMMA TablesKept == TablesInv /\ [Next]_vars => TablesInv'
  <1> SUFFICES ASSUME TablesInv, [Next]_vars PROVE TablesInv'
    OBVIOUS
  <1>1. CASE UNCHANGED tableVars
    <2>1. UNCHANGED <<xsdt, found, entries, smp>>
      BY <1>1 DEF tableVars
    <2> QED
      BY <2>1, FindStep DEF TablesInv, FirstFound
  <1>2. CASE mp_get_cores
    <2>1. UNCHANGED <<xsdt, found, entries>>
      BY <1>2 DEF mp_get_cores
    <2>2. /\ smp'.end \in {"none", "alone", "fault", "aware"}
          /\ smp'.end = "aware" => \E m \in Madts : smp' = Cores(m)
      <3>1. CASE smp' \in {Cores(m) : m \in Madts}
        <4>1. PICK m \in Madts : smp' = Cores(m)
          BY <3>1
        <4>2. Cores(m).end = "aware"
          BY DEF Cores
        <4> QED
          BY <4>1, <4>2
      <3>2. CASE smp' \in {[smp EXCEPT !.end = e] : e \in {"alone", "fault"}}
        <4>1. PICK e \in {"alone", "fault"} : smp' = [smp EXCEPT !.end = e]
          BY <3>2
        <4>2. smp'.end \in {"none", "alone", "fault"}
          BY <4>1 DEF TablesInv
        <4> QED
          BY <4>2
      <3> QED
        BY <1>2, <3>1, <3>2 DEF mp_get_cores
    <2>3. FirstFound' /\ Count(xsdt.length)' = Count(xsdt.length)
      BY <2>1 DEF FirstFound, TablesInv, Count
    <2>4. (smp.end = "aware" => \E m \in Madts : smp = Cores(m))'
      BY <2>2 DEF Madts, Cores, Walked, Stops, Lapics
    <2> QED
      BY <2>1, <2>2, <2>3, <2>4 DEF TablesInv
  <1>3. TablesNext \/ UNCHANGED tableVars
    BY DEF Next, vars
  <1> QED
    BY <1>1, <1>2, <1>3, FindKeeps DEF TablesNext

\* The walk over the records of mp_get_cores (HalCoreScheduler.cc:213), however
\* many there are.
LEMMA WalkEnds ==
  ASSUME NEW m \in Madts
  PROVE  /\ m \in Seq(Nat) /\ Len(m) > 0
         /\ \E w \in Nat : /\ Walked(m) = 1 .. w /\ w < Len(m)
                           /\ Stops(m, w + 1) /\ \A i \in 1 .. w : ~Stops(m, i)
  <1>1. PICK n \in 0 .. Records : \E t \in [1 .. n -> {0, 1, 5}] : m = Append(t, 10)
    BY DEF Madts
  <1>2. PICK t \in [1 .. n -> {0, 1, 5}] : m = Append(t, 10)
    BY <1>1
  <1>3. n \in Nat
    BY TableSizes
  <1>4. t \in Seq({0, 1, 5}) /\ Len(t) = n /\ t \in Seq(Nat)
    BY <1>3
  <1>5. Len(m) = n + 1 /\ m[n + 1] = 10 /\ m \in Seq(Nat)
    BY <1>2, <1>4
  <1> DEFINE E == {i \in 1 .. Len(m) : Stops(m, i)}
  <1>6. n + 1 \in E
    BY <1>3, <1>5 DEF Stops
  <1>7. Min(E) \in E /\ \A y \in E : Min(E) <= y
    <2>1. E \subseteq Nat /\ E # {}
      BY <1>3, <1>5, <1>6
    <2> HIDE DEF E
    <2> QED
      BY <2>1, MinIs
  <1> DEFINE w == Min(E) - 1
  <1>8. Walked(m) = 1 .. w
    BY DEF Walked
  <1>9. w \in Nat /\ w < Len(m)
    BY <1>3, <1>5, <1>7
  <1>10. \A i \in 1 .. w : ~Stops(m, i)
    BY <1>3, <1>5, <1>7, <1>9
  <1>11. Stops(m, w + 1)
    BY <1>3, <1>5, <1>7
  <1>12. Len(m) > 0
    BY <1>3, <1>5
  <1> HIDE DEF w
  <1> QED
    BY <1>5, <1>8, <1>9, <1>10, <1>11, <1>12

\* Earlier records are fewer.
LEMMA FewerBefore ==
  ASSUME NEW m, NEW i \in Nat, NEW j \in Nat, i <= j
  PROVE  /\ Cardinality(Lapics(m, i)) \in Nat /\ Cardinality(Lapics(m, j)) \in Nat
         /\ Cardinality(Lapics(m, i)) <= Cardinality(Lapics(m, j))
  <1>1. Lapics(m, j) \subseteq 1 .. j /\ Lapics(m, i) \subseteq Lapics(m, j)
    BY DEF Lapics
  <1>2. IsFiniteSet(1 .. j)
    BY FS_Interval
  <1> QED
    BY <1>1, <1>2, FS_Subset, FS_CardinalityType

\* The count passes cSMPMax by one at most, and the indices stay inside the
\* array but for a Local APIC the walk reaches behind as many records.
LEMMA CoresInside ==
  ASSUME NEW m \in Madts
  PROVE  LET c == Cores(m) IN
         /\ c.types = m /\ c.count = Cardinality(c.locales) /\ c.count <= cSMPMax + 1
         /\ c.locales \subseteq 0 .. cSMPMax - 1 <=>
              ~\E i \in cSMPMax + 1 .. Len(m) :
                 /\ m[i] = 0 /\ \A j \in 1 .. i : m[j] <= 9
                 /\ Cardinality({j \in 1 .. i - 1 : m[j] = 0}) <= cSMPMax
  <1>0. m \in Seq(Nat)
    BY WalkEnds
  <1>1. PICK w \in Nat : /\ Walked(m) = 1 .. w /\ w < Len(m)
                         /\ Stops(m, w + 1) /\ \A i \in 1 .. w : ~Stops(m, i)
    BY WalkEnds
  <1> DEFINE Z == {j \in 1 .. w : m[j] = 0}
             S == {i - 1 : i \in Z}
  <1>2. Cores(m) = [end |-> "aware", types |-> m, count |-> Cardinality(S), locales |-> S]
    BY <1>1 DEF Cores
  <1>3. S \subseteq 0 .. w - 1 /\ \A i \in S : i + 1 \in Z
    OBVIOUS
  <1>4. Cardinality(1 .. w) = w /\ IsFiniteSet(1 .. w)
    BY FS_Interval
  <1>5. IsFiniteSet(Z) /\ Cardinality(Z) \in Nat
    BY <1>4, FS_Subset, FS_CardinalityType
  <1>6. IsFiniteSet(S) /\ Cardinality(S) <= Cardinality(Z)
    <2> DEFINE f == [i \in S |-> i + 1]
    <2>1. f \in Injection(S, Z)
      BY <1>3 DEF Injection, IsInjective
    <2> QED
      BY <1>5, <2>1, FS_Injection
  <1>7. Cardinality(Z) <= cSMPMax + 1
    <2>1. CASE w = 0
      <3>1. Z = {}
        BY <2>1
      <3> QED
        BY <3>1, FS_EmptySet, TableSizes
    <2>2. CASE w # 0
      <3>1. w \in 1 .. w /\ w - 1 \in Nat
        BY <2>2
      <3>2. ~(Cardinality(Lapics(m, w - 1)) > cSMPMax)
        BY <1>1, <3>1 DEF Stops
      <3>3. Lapics(m, w - 1) \subseteq 1 .. w
        BY <3>1 DEF Lapics
      <3>4. IsFiniteSet(Lapics(m, w - 1)) /\ Cardinality(Lapics(m, w - 1)) \in Nat
        BY <1>4, <3>3, FS_Subset, FS_CardinalityType
      <3>5. Z \subseteq Lapics(m, w - 1) \cup {w}
        BY <3>1 DEF Lapics
      <3>6. /\ IsFiniteSet(Lapics(m, w - 1) \cup {w})
            /\ Cardinality(Lapics(m, w - 1) \cup {w}) <= Cardinality(Lapics(m, w - 1)) + 1
        BY <3>4, FS_AddElement
      <3>7. Cardinality(Lapics(m, w - 1) \cup {w}) \in Nat
        BY <3>6, FS_CardinalityType
      <3>8. Cardinality(Z) <= Cardinality(Lapics(m, w - 1) \cup {w})
        BY <3>5, <3>6, FS_Subset
      <3> QED
        BY <1>5, <3>2, <3>4, <3>6, <3>7, <3>8, TableSizes
    <2> QED
      BY <2>1, <2>2
  <1>8. Cardinality(S) \in Nat
    BY <1>6, FS_CardinalityType
  <1>9. Cardinality(S) <= cSMPMax + 1
    <2> HIDE DEF Z, S
    <2> QED
      BY <1>5, <1>6, <1>7, <1>8, TableSizes
  <1>10. ASSUME NEW i \in cSMPMax + 1 .. Len(m), m[i] = 0, \A j \in 1 .. i : m[j] <= 9,
                Cardinality({j \in 1 .. i - 1 : m[j] = 0}) <= cSMPMax
         PROVE  ~(S \subseteq 0 .. cSMPMax - 1)
    <2>1. i \in Nat /\ i >= 1 /\ i - 1 \in Nat /\ w + 1 \in Nat
      BY <1>0, TableSizes
    <2>2. Cardinality(Lapics(m, i - 1)) <= cSMPMax
      BY <1>10 DEF Lapics
    <2>3. i <= w
      <3> SUFFICES ASSUME w < i PROVE FALSE
        BY <2>1
      <3>1. w + 1 \in 1 .. i /\ w <= i - 1
        BY <2>1
      <3>2. m[w + 1] \in Nat /\ m[w + 1] <= 9
        BY <1>0, <1>1, <1>10, <3>1
      <3>3. Cardinality(Lapics(m, w)) > cSMPMax
        BY <1>1, <3>2 DEF Stops
      <3> QED
        BY <2>1, <2>2, <3>1, <3>3, FewerBefore, TableSizes
    <2>4. i - 1 \in S
      BY <1>10, <2>1, <2>3
    <2>5. i - 1 \notin 0 .. cSMPMax - 1
      BY <2>1, TableSizes
    <2> HIDE DEF S
    <2> QED
      BY <2>4, <2>5
  <1>11. ASSUME NEW x \in S, x \notin 0 .. cSMPMax - 1
         PROVE  \E i \in cSMPMax + 1 .. Len(m) :
                   /\ m[i] = 0 /\ \A j \in 1 .. i : m[j] <= 9
                   /\ Cardinality({j \in 1 .. i - 1 : m[j] = 0}) <= cSMPMax
    <2>1. PICK i \in Z : x = i - 1
      OBVIOUS
    <2>2. i \in cSMPMax + 1 .. Len(m) /\ m[i] = 0
      BY <1>0, <1>1, <1>11, <2>1, TableSizes
    <2>3. ASSUME NEW j \in 1 .. i PROVE m[j] <= 9
      <3>1. j \in 1 .. w /\ m[j] \in Nat
        BY <1>0, <1>1, <2>1
      <3> QED
        BY <1>1, <3>1 DEF Stops
    <2>4. ~(Cardinality(Lapics(m, i - 1)) > cSMPMax)
      BY <1>1, <2>1 DEF Stops
    <2>5. i - 1 \in Nat
      BY <2>1
    <2>6. Cardinality(Lapics(m, i - 1)) <= cSMPMax
      BY <2>4, <2>5, FewerBefore, TableSizes
    <2>7. Cardinality({j \in 1 .. i - 1 : m[j] = 0}) <= cSMPMax
      BY <2>6 DEF Lapics
    <2> QED
      BY <2>2, <2>3, <2>7
  <1>12. S \subseteq 0 .. cSMPMax - 1 <=>
              ~\E i \in cSMPMax + 1 .. Len(m) :
                 /\ m[i] = 0 /\ \A j \in 1 .. i : m[j] <= 9
                 /\ Cardinality({j \in 1 .. i - 1 : m[j] = 0}) <= cSMPMax
    <2> HIDE DEF S
    <2> QED
      BY <1>10, <1>11
  <1> HIDE DEF S
  <1>13. /\ Cores(m).types = m /\ Cores(m).locales = S
         /\ Cores(m).count = Cardinality(Cores(m).locales) /\ Cores(m).count <= cSMPMax + 1
    BY <1>2, <1>9
  <1> QED
    BY <1>12, <1>13

-----------------------------------------------------------------------------
(***************************************************************************)
(* The PCI bus                                                             *)
(***************************************************************************)

Buses == 0 .. BusCount - 1

PciInv ==
    /\ PciTypeOK
    /\ bar \in [high : {1}, low : {0, 1}] /\ mem_ahci \in [high : {0, 1}, low : {0, 1}]
    /\ start \in {"probe", "select"} => kAhciDevice = NoSlot
    /\ start = "select" => fDevices = [b \in Buses |-> Kept(b)]
    /\ ControllerFound
    /\ start \in {"master", "bar", "ready"} => bar.low = 0
    /\ start = "ready" => mem_ahci = bar

LEMMA NoSlotOutside == NoSlot \notin Slots
  <1>1. \A s \in Slots : s[1] >= 0
    BY PciSizes DEF Slots
  <1> QED
    BY <1>1 DEF NoSlot

\* The largest place of a bus that answers.
LEMMA MaxIs ==
  ASSUME NEW n \in Nat, NEW S, S \subseteq 0 .. n, S # {}
  PROVE  Max(S) \in S
  <1> DEFINE T == {m \in 0 .. n : n - m \in S}
  <1>1. T \subseteq Nat /\ T # {}
    <2>1. PICK x \in S : TRUE
      OBVIOUS
    <2>2. n - x \in T
      <3>1. n - (n - x) = x /\ n - x \in 0 .. n
        BY <2>1
      <3> QED
        BY <3>1
    <2>3. T \subseteq Nat
      OBVIOUS
    <2> HIDE DEF T
    <2> QED
      BY <2>2, <2>3
  <1>2. Min(T) \in T /\ \A y \in T : Min(T) <= y
    <2> HIDE DEF T
    <2> QED
      BY <1>1, MinIs
  <1> DEFINE x == n - Min(T)
  <1>3. x \in S
    BY <1>2
  <1>4. ASSUME NEW y \in S PROVE x >= y
    <2>1. n - (n - y) = y /\ n - y \in 0 .. n
      OBVIOUS
    <2>2. n - y \in T
      BY <2>1
    <2>3. Min(T) <= n - y /\ Min(T) \in 0 .. n
      BY <1>2, <2>2
    <2> QED
      BY <2>1, <2>3
  <1> HIDE DEF x
  <1> QED
    BY <1>3, <1>4 DEF Max

\* The controller is the only storage: its bus keeps it and no other slot.
LEMMA KeptIs ==
  ASSUME NEW b \in Buses
  PROVE  /\ Kept(b) = NoSlot \/ IsStorage(Kept(b))
         /\ \A s \in Slots : s[1] = b /\ IsStorage(s) => Kept(b) # NoSlot
  <1> DEFINE hits == {d \in 0 .. SlotCount : IsStorage(Addressed(b, d))}
  <1>1. hits \subseteq 0 .. SlotCount /\ SlotCount \in Nat
    BY PciSizes
  <1>2. CASE hits = {}
    <2>1. Kept(b) = NoSlot
      BY <1>2 DEF Kept
    <2>2. ASSUME NEW s \in Slots, s[1] = b, IsStorage(s) PROVE FALSE
      <3>1. s[2] \in 0 .. SlotCount - 1 /\ s = <<s[1], s[2]>>
        BY <2>2 DEF Slots
      <3>2. Addressed(b, s[2]) = s /\ s[2] \in 0 .. SlotCount
        BY <1>1, <2>2, <3>1 DEF Addressed
      <3> QED
        BY <1>2, <2>2, <3>2
    <2> QED
      BY <2>1, <2>2
  <1>3. CASE hits # {}
    <2>1. Kept(b) = Addressed(b, Max(hits))
      BY <1>3 DEF Kept
    <2>2. Max(hits) \in hits
      <3> HIDE DEF hits
      <3> QED
        BY <1>1, <1>3, MaxIs
    <2>3. IsStorage(Kept(b))
      BY <2>1, <2>2
    <2> QED
      BY <2>3, NoSlotOutside DEF IsStorage
  <1> QED
    BY <1>2, <1>3

LEMMA PciBegin == PciInit => PciInv
  <1> SUFFICES ASSUME PciInit PROVE PciInv
    OBVIOUS
  <1> USE DEF PciInit
  <1>1. PciTypeOK
    BY DEF PciTypeOK
  <1>2. ControllerFound
    BY DEF ControllerFound
  <1> QED
    BY <1>1, <1>2 DEF PciInv

LEMMA SelectKeeps ==
  ASSUME PciInv, Select
  PROVE  PciInv'
  <1>0. start = "select" /\ UNCHANGED <<machine, command, bar, fDevices, mem_ahci>>
    BY DEF Select
  <1>1. PICK entry \in [Buses -> Slots \cup {NoSlot}] :
          LET hits == {b \in Buses : IsAhci(entry[b])}
          IN  /\ kAhciDevice' = entry[IF hits = {} THEN BusCount - 1 ELSE Min(hits)]
              /\ start' = IF hits = {} THEN "missing" ELSE "mmio"
              /\ overwritten' = \E b \in Buses : fDevices[b] \notin {NoSlot, entry[b]}
    BY DEF Select, Buses
  <1> DEFINE hits == {b \in Buses : IsAhci(entry[b])}
  <1>2. /\ hits = {} => kAhciDevice' = entry[BusCount - 1] /\ start' = "missing"
        /\ hits # {} => kAhciDevice' = entry[Min(hits)] /\ start' = "mmio"
        /\ overwritten' = \E b \in Buses : fDevices[b] \notin {NoSlot, entry[b]}
    BY <1>1
  <1>3. hits # {} => Min(hits) \in hits
    <2>1. hits \subseteq Nat
      BY PciSizes DEF Buses
    <2> HIDE DEF hits
    <2> QED
      BY <2>1, MinIs
  <1>4. hits # {} => IsAhci(kAhciDevice')
    BY <1>2, <1>3
  <1>5. \A b \in Buses : fDevices[b] = Kept(b)
    BY <1>0 DEF PciInv
  <1>6. ASSUME NEW s \in Slots, IsAhci(s), \A t \in Slots : IsStorage(t) => t = s
        PROVE  /\ start' = "missing" => overwritten'
               /\ start' # "missing" => kAhciDevice' = s
    <2>1. s[1] \in Buses /\ IsStorage(s)
      BY <1>6 DEF Slots, Buses, IsAhci, IsStorage
    <2>2. IsStorage(Kept(s[1])) /\ Kept(s[1]) # NoSlot
      BY <2>1, KeptIs
    <2>3. Kept(s[1]) = s
      BY <1>6, <2>2 DEF IsStorage
    <2>4. ASSUME hits = {} PROVE overwritten'
      <3>1. entry[s[1]] # s
        BY <1>6, <2>1, <2>4
      <3>2. fDevices[s[1]] \notin {NoSlot, entry[s[1]]}
        BY <1>5, <2>1, <2>2, <2>3, <3>1
      <3> QED
        BY <1>2, <2>1, <3>2
    <2>5. ASSUME hits # {} PROVE kAhciDevice' = s
      <3>1. IsStorage(kAhciDevice') /\ kAhciDevice' \in Slots
        BY <1>4, <2>5 DEF IsAhci, IsStorage
      <3> QED
        BY <1>6, <3>1
    <2> QED
      BY <1>2, <2>4, <2>5
  <1>7. kAhciDevice' \in Slots \cup {NoSlot} /\ start' \in {"missing", "mmio"} /\ overwritten' \in BOOLEAN
    <2>1. BusCount - 1 \in Buses
      BY PciSizes DEF Buses
    <2>2. kAhciDevice' \in Slots \cup {NoSlot}
      BY <1>2, <1>3, <2>1
    <2>3. start' \in {"missing", "mmio"}
      BY <1>2
    <2>4. overwritten' \in BOOLEAN
      BY <1>2
    <2> QED
      BY <2>2, <2>3, <2>4
  <1> HIDE DEF hits
  <1>8. ControllerFound'
    BY <1>0, <1>6, <1>7 DEF ControllerFound, IsAhci, IsStorage
  <1>9. PciTypeOK'
    BY <1>0, <1>7 DEF PciTypeOK, PciInv
  <1> QED
    BY <1>0, <1>7, <1>8, <1>9 DEF PciInv

\* The steps that switch the controller on find no other one.
LEMMA SwitchKeeps ==
  ASSUME PciInv, EnableMmio \/ BecomeBusMaster \/ Bar
  PROVE  PciInv'
  <1>1. UNCHANGED <<machine, command, fDevices, kAhciDevice, overwritten>>
        /\ start \in {"mmio", "master", "bar"} /\ start' \in {"master", "bar", "ready"}
    BY DEF EnableMmio, BecomeBusMaster, Bar
  <1>2. ControllerFound'
    BY <1>1 DEF PciInv, ControllerFound, IsAhci, IsStorage
  <1>3. CASE EnableMmio \/ BecomeBusMaster
    <2>1. bar' = [bar EXCEPT !.low = 0] /\ UNCHANGED mem_ahci /\ start' \in {"master", "bar"}
      BY <1>3 DEF EnableMmio, BecomeBusMaster, Enabled
    <2>2. bar' \in [high : {1}, low : {0, 1}] /\ bar'.low = 0
      BY <2>1 DEF PciInv
    <2> QED
      BY <1>1, <1>2, <2>1, <2>2 DEF PciInv, PciTypeOK
  <1>4. CASE Bar
    <2>1. mem_ahci' = bar /\ UNCHANGED bar /\ bar.low = 0 /\ start' = "ready"
      BY <1>4 DEF Bar, PciInv
    <2>2. mem_ahci' \in [high : {0, 1}, low : {0, 1}] /\ mem_ahci'.low \in {0, 1}
      BY <2>1 DEF PciInv
    <2> QED
      BY <1>1, <1>2, <2>1, <2>2 DEF PciInv, PciTypeOK
  <1> QED
    BY <1>3, <1>4

LEMMA PciKept == PciInv /\ [Next]_vars => PciInv'
  <1> SUFFICES ASSUME PciInv, [Next]_vars PROVE PciInv'
    OBVIOUS
  <1>1. CASE UNCHANGED pciVars
    BY <1>1 DEF pciVars, PciInv, PciTypeOK, ControllerFound, IsAhci, IsStorage, Kept
  <1>2. CASE Probe
    <2>1. /\ start = "probe" /\ start' = "select" /\ kAhciDevice = NoSlot
          /\ UNCHANGED <<machine, command, bar, kAhciDevice, overwritten, mem_ahci>>
          /\ fDevices' = [b \in Buses |-> Kept(b)]
      BY <1>2 DEF Probe, PciInv, Buses
    <2>2. fDevices' = [b \in Buses |-> Kept(b)']
      BY <2>1 DEF Kept, IsStorage
    <2>3. ControllerFound'
      BY <2>1 DEF ControllerFound
    <2> QED
      BY <2>1, <2>2, <2>3 DEF PciInv, PciTypeOK
  <1>3. PciNext \/ UNCHANGED pciVars
    BY DEF Next, vars
  <1> QED
    BY <1>1, <1>2, <1>3, SelectKeeps, SwitchKeeps DEF PciNext

\* HardwareFound: Find looks at no entry behind the table and finds the first
\* one of the signature; the walk over the MADT, whatever memory it reads as
\* one, passes kAPICLocales by one at most with its count, and leaves it with
\* its index for a Local APIC behind as many records and in no other case; an
\* AHCI controller that is the only storage is found unless a copy that was gone
\* when it was read had been written over; and the driver goes on without the
\* lower half of its address (ACPIFactoryInterface.cc:53, HalCoreScheduler.cc:213,
\* Iterator.cc:37, AHCI-DMA.cc:73): for tables and buses of any size.
THEOREM HardwareIsFound == Spec => []HardwareFound
  <1>1. Init => TablesInv /\ PciInv
    BY TablesBegin, PciBegin DEF Init
  <1>2. TablesInv /\ PciInv => HardwareFound
    <2> SUFFICES ASSUME TablesInv, PciInv PROVE HardwareFound
      OBVIOUS
    <2>1. EntriesInside
      <3>1. xsdt.length \in 0 .. MaxLength /\ entries \in {0, Count(xsdt.length)}
        BY DEF TablesInv
      <3>2. xsdt.length >= Header => Count(xsdt.length) * Entry + Header <= xsdt.length
        BY <3>1, CountInside
      <3> QED
        BY <3>1, <3>2, TableSizes DEF EntriesInside
    <2>2. FirstFound /\ ControllerFound
      BY DEF TablesInv, PciInv
    <2>3. LocalesInside
      <3> SUFFICES ASSUME smp.end = "aware" PROVE LocalesInside
        BY DEF LocalesInside
      <3>1. PICK m \in Madts : smp = Cores(m)
        BY DEF TablesInv
      <3>2. /\ smp.types = m /\ smp.count = Cardinality(smp.locales) /\ smp.count <= cSMPMax + 1
            /\ smp.locales \subseteq 0 .. cSMPMax - 1 <=>
                 ~\E i \in cSMPMax + 1 .. Len(m) :
                    /\ m[i] = 0 /\ \A j \in 1 .. i : m[j] <= 9
                    /\ Cardinality({j \in 1 .. i - 1 : m[j] = 0}) <= cSMPMax
        BY <3>1, CoresInside
      <3> HIDE DEF TablesInv, PciInv
      <3> QED
        BY <3>2, Zenon DEF LocalesInside
    <2>4. LowHalfLost
      BY DEF PciInv, LowHalfLost
    <2> QED
      BY <2>1, <2>2, <2>3, <2>4 DEF HardwareFound
  <1> QED
    BY <1>1, <1>2, TablesKept, PciKept, PTL DEF Spec

-----------------------------------------------------------------------------
(***************************************************************************)
(* What callers wait on                                                    *)
(***************************************************************************)

\* A caller that waits although its first attempt got the semaphore holds it.
SemInv ==
    /\ SemTypeOK
    /\ OneHolder
    /\ \A c \in Callers : at[c] = "wait" => told[c] # "Yes"
    /\ \A c \in Callers : at[c] = "wait" /\ ~refused[c] => fLockingProcess = c

LEMMA SemBegin == SemInit => SemInv
  BY DEF SemInit, SemInv, SemTypeOK, OneHolder

\* Nobody is told that it has a semaphore that is free.
LEMMA FreeUntold ==
  ASSUME SemInv, fLockingProcess = NoCaller, NEW c \in Callers
  PROVE  told[c] # "Yes" /\ (at[c] = "wait" => refused[c])
  BY NoCallerOutside DEF SemInv, OneHolder, SemTypeOK

\* A step of c that may take the semaphore and answers or begins to wait.
LEMMA TakeKeeps ==
  ASSUME SemInv, NEW c \in Callers, LockBy(c), Answer(c), UNCHANGED refused,
         at' = [at EXCEPT ![c] = "idle"]
  PROVE  SemInv'
  <1>1. CASE fLockingProcess = NoCaller
    <2>1. fLockingProcess' = c /\ told' = [told EXCEPT ![c] = "Yes"]
      BY <1>1 DEF LockBy, Answer, CanLock
    <2>2. \A d \in Callers : told[d] # "Yes" /\ (at[d] = "wait" => refused[d])
      BY <1>1, FreeUntold
    <2> QED
      BY <2>1, <2>2 DEF SemInv, SemTypeOK, OneHolder
  <1>2. CASE fLockingProcess # NoCaller
    <2>1. UNCHANGED fLockingProcess /\ told' = [told EXCEPT ![c] = "No"]
      BY <1>2 DEF LockBy, Answer, CanLock
    <2> QED
      BY <2>1 DEF SemInv, SemTypeOK, OneHolder
  <1> QED
    BY <1>1, <1>2

LEMMA SemStep ==
  ASSUME SemInv, NEW c \in Callers,
         Lock(c) \/ Unlock(c) \/ TryFirst(c) \/ TryAgain(c) \/ SpinOn(c) \/ SpinOff(c)
  PROVE  SemInv'
  <1>1. CASE Lock(c)
    <2>1. at' = [at EXCEPT ![c] = "idle"]
      BY <1>1 DEF Lock, SemInv, SemTypeOK
    <2> QED
      BY <1>1, <2>1, TakeKeeps DEF Lock
  <1>2. CASE Unlock(c)
    <2>1. /\ fLockingProcess = c /\ fLockingProcess' = NoCaller /\ UNCHANGED <<at, refused>>
          /\ at[c] = "idle" /\ told' = [told EXCEPT ![c] = "nothing"]
      BY <1>2, NoCallerOutside DEF Unlock, SemInv, OneHolder
    <2>2. \A d \in Callers : d # c => told[d] # "Yes" /\ (at[d] = "wait" => refused[d])
      BY <1>2, <2>1 DEF Unlock, SemInv, OneHolder, SemTypeOK
    <2> QED
      BY <2>1, <2>2 DEF SemInv, SemTypeOK, OneHolder
  <1>3. CASE TryFirst(c)
    <2>1. CASE /\ LockBy(c) /\ refused' = [refused EXCEPT ![c] = ~CanLock(c)]
               /\ at' = [at EXCEPT ![c] = "wait"] /\ UNCHANGED told
      <3>1. told[c] # "Yes" /\ at[c] = "idle"
        BY <1>3 DEF TryFirst
      <3>2. CASE fLockingProcess = NoCaller
        <4>1. fLockingProcess' = c
          BY <2>1, <3>2 DEF LockBy, CanLock
        <4>2. \A d \in Callers : told[d] # "Yes" /\ (at[d] = "wait" => refused[d])
          BY <3>2, FreeUntold
        <4>3. refused' \in [Callers -> BOOLEAN] /\ \A d \in Callers : d # c => refused'[d] = refused[d]
          BY <2>1 DEF SemInv, SemTypeOK, CanLock
        <4>4. at' \in [Callers -> {"idle", "wait", "spin"}] /\ \A d \in Callers : d # c => at'[d] = at[d]
          BY <2>1 DEF SemInv, SemTypeOK
        <4>5. \A d \in Callers : at'[d] = "wait" /\ ~refused'[d] => d = c
          BY <4>2, <4>3, <4>4
        <4> QED
          BY <2>1, <4>1, <4>2, <4>3, <4>4, <4>5 DEF SemInv, SemTypeOK, OneHolder
      <3>3. CASE fLockingProcess # NoCaller
        <4>1. UNCHANGED <<fLockingProcess, told>> /\ refused' = [refused EXCEPT ![c] = TRUE]
          BY <2>1, <3>3 DEF LockBy, CanLock
        <4> QED
          BY <2>1, <3>1, <4>1 DEF SemInv, SemTypeOK, OneHolder
      <3> QED
        BY <3>2, <3>3
    <2>2. CASE told' = [told EXCEPT ![c] = "No"] /\ UNCHANGED <<fLockingProcess, at, refused>>
      BY <2>2 DEF SemInv, SemTypeOK, OneHolder
    <2> QED
      BY <1>3, <2>1, <2>2 DEF TryFirst
  <1>4. CASE TryAgain(c)
    BY <1>4, TakeKeeps DEF TryAgain
  <1>5. CASE SpinOn(c)
    BY <1>5 DEF SpinOn, SemInv, SemTypeOK, OneHolder
  <1>6. CASE SpinOff(c)
    BY <1>6 DEF SpinOff, SemInv, SemTypeOK, OneHolder
  <1> QED
    BY <1>1, <1>2, <1>3, <1>4, <1>5, <1>6

LEMMA SemKept == SemInv /\ [Next]_vars => SemInv'
  <1> SUFFICES ASSUME SemInv, [Next]_vars PROVE SemInv'
    OBVIOUS
  <1>1. CASE UNCHANGED semVars
    BY <1>1 DEF semVars, SemInv, SemTypeOK, OneHolder
  <1>2. SemNext \/ UNCHANGED semVars
    BY DEF Next, vars
  <1> QED
    BY <1>1, <1>2, SemStep DEF SemNext

\* Only the second attempt answers a caller that waits, and it says Yes only
\* when the semaphore is free.
LEMMA YesWhenRefused ==
  ASSUME SemInv, SemNext, NEW c \in Callers, at[c] = "wait", told'[c] = "Yes"
  PROVE  refused[c]
  <1>1. told[c] # "Yes" /\ (~refused[c] => fLockingProcess = c)
    BY DEF SemInv
  <1>2. PICK d \in Callers :
          Lock(d) \/ Unlock(d) \/ TryFirst(d) \/ TryAgain(d) \/ SpinOn(d) \/ SpinOff(d)
    BY DEF SemNext
  <1>3. told' = told \/ \E w \in {"nothing", "Yes", "No"} : told' = [told EXCEPT ![d] = w]
    BY <1>2 DEF Lock, Unlock, TryFirst, TryAgain, SpinOn, SpinOff, Answer
  <1>4. d = c
    BY <1>1, <1>3 DEF SemInv, SemTypeOK
  <1>5. TryAgain(c)
    BY <1>2, <1>4 DEF Lock, Unlock, TryFirst, SpinOn, SpinOff
  <1>6. fLockingProcess = NoCaller
    BY <1>5 DEF TryAgain, Answer, CanLock, SemInv, SemTypeOK
  <1> QED
    BY <1>1, <1>6, NoCallerOutside

LEMMA HolderStays ==
  ASSUME SemInv, SemNext, NEW c \in Callers, fLockingProcess = c, told[c] # "Yes"
  PROVE  fLockingProcess' = c
  <1>1. PICK d \in Callers :
          Lock(d) \/ Unlock(d) \/ TryFirst(d) \/ TryAgain(d) \/ SpinOn(d) \/ SpinOff(d)
    BY DEF SemNext
  <1>2. ~Unlock(d)
    BY DEF Unlock, SemInv, OneHolder
  <1> QED
    BY <1>1, <1>2, NoCallerOutside DEF Lock, TryFirst, TryAgain, SpinOn, SpinOff, LockBy, CanLock

-----------------------------------------------------------------------------

LockInv ==
    /\ LockTypeOK
    /\ saw => built
    /\ DoneIfSeen

LEMMA LockBegin == LockInit => LockInv
  <1> SUFFICES ASSUME LockInit PROVE LockInv
    OBVIOUS
  <1>1. ~saw /\ ~built /\ saw \in BOOLEAN /\ built \in BOOLEAN
    BY DEF LockInit
  <1>2. expr \in BOOLEAN /\ kept \in {"read", "set", "clear"} /\ fLockStatus \subseteq kLockTimedOut
    BY DEF LockInit
  <1>3. spin \in 0 .. N
    BY NIsNat DEF LockInit
  <1> QED
    BY <1>1, <1>2, <1>3 DEF LockInv, LockTypeOK, DoneIfSeen

LEMMA LockKept == LockInv /\ [Next]_vars => LockInv'
  <1> SUFFICES ASSUME LockInv, [Next]_vars PROVE LockInv'
    OBVIOUS
  <1>1. CASE UNCHANGED lockVars
    BY <1>1 DEF lockVars, LockInv, LockTypeOK, DoneIfSeen, Done
  <1>2. CASE Signal
    <2>1. expr' \in BOOLEAN /\ UNCHANGED <<kept, spin, saw, fLockStatus, built>>
      BY <1>2 DEF Signal, LockInv, LockTypeOK
    <2> QED
      BY <2>1 DEF LockInv, LockTypeOK, DoneIfSeen, Done
  <1>3. CASE Poll
    <2>1. UNCHANGED <<expr, kept>> /\ ~built /\ ~saw /\ spin \in 0 .. N /\ spin < N
      BY <1>3 DEF Poll, LockInv, LockTypeOK
    <2>2. CASE saw' = TRUE /\ built' = TRUE /\ fLockStatus' = Or(kLockDone) /\ UNCHANGED spin
      <3>1. kLockDone \subseteq fLockStatus' /\ fLockStatus' \subseteq kLockTimedOut
        BY <2>2 DEF Or, LockInv, LockTypeOK, kLockDone, kLockTimedOut
      <3>2. DoneIfSeen'
        BY <3>1 DEF DoneIfSeen, Done
      <3> QED
        BY <2>1, <2>2, <3>1, <3>2 DEF LockInv, LockTypeOK
    <2>3. CASE spin' = spin + 1 /\ UNCHANGED <<saw, built, fLockStatus>>
      <3>1. spin' \in 0 .. N
        BY <2>1, <2>3, NIsNat
      <3> QED
        BY <2>1, <2>3, <3>1 DEF LockInv, LockTypeOK, DoneIfSeen, Done
    <2> QED
      BY <1>3, <2>2, <2>3 DEF Poll
  <1>4. CASE GiveUp
    <2>1. UNCHANGED <<expr, kept, spin, saw>> /\ built' = TRUE /\ ~saw
      BY <1>4 DEF GiveUp, LockInv
    <2>2. fLockStatus' \subseteq kLockTimedOut
      BY <1>4 DEF GiveUp, Or, LockInv, LockTypeOK
    <2> QED
      BY <2>1, <2>2 DEF LockInv, LockTypeOK, DoneIfSeen
  <1>5. LockNext \/ UNCHANGED lockVars
    BY DEF Next, vars
  <1> QED
    BY <1>1, <1>2, <1>3, <1>4, <1>5 DEF LockNext

-----------------------------------------------------------------------------

\* The word of a software wait counts up to the value whose sum overflows and
\* stays there.
Counting ==
    kind = "software" /\ compiled = "wraps" =>
        /\ phase # "idle" \/ ended > 0 => fWaitFor >= 1
        /\ ended = 0 /\ phase = "idle" => fDigitalTimer = 0
        /\ ended = 0 /\ phase = "loop" => /\ turns = fDigitalTimer
                                          /\ fDigitalTimer \in 0 .. Top + 1 - fWaitFor
        /\ ended > 0 => fDigitalTimer = Top + 1 - fWaitFor
        /\ ended > 0 /\ phase = "loop" => turns = 0
        /\ ended > 0 /\ phase = "idle" => turns = IF ended = 1 THEN Top + 1 - fWaitFor ELSE 0

\* A hardware wait has turned only while the register was below its target.
Polling ==
    kind = "hardware" /\ phase = "loop" =>
        /\ capabilities \div Shift # 0
        /\ turns > 0 => capabilities < fWaitFor \div (capabilities \div Shift)

TimersInv ==
    /\ TimersTypeOK
    /\ kind \in {"software", "hardware"} /\ compiled \in {"wraps", "endless"}
    /\ kind = "software" => phase # "fault"
    /\ capabilities \in Nat
    /\ compiled = "endless" => kind = "software" /\ ended = 0
    /\ Counting /\ Polling

LEMMA TimersBegin == TimersInit => TimersInv
  <1> SUFFICES ASSUME TimersInit PROVE TimersInv
    OBVIOUS
  <1> USE WidthsArePositive DEF TimersInit
  <1>1. capabilities \in Nat
    <2>1. PICK period \in 0 .. 2, low \in 0 .. 1 : capabilities = period * Shift + low
      OBVIOUS
    <2> QED
      BY <2>1
  <1>2. TimersTypeOK
    BY DEF TimersTypeOK, Waits
  <1>3. Counting /\ Polling
    BY DEF Counting, Polling
  <1>4. compiled = "endless" => kind = "software" /\ ended = 0
    OBVIOUS
  <1> QED
    BY <1>1, <1>2, <1>3, <1>4 DEF TimersInv

LEMMA WrapTyped ==
  ASSUME NEW t \in -(Top + 1) .. Top
  PROVE  Wrap(t + 1) \in -(Top + 1) .. Top
  BY WidthsArePositive DEF Wrap

\* The signed sum: as long as it does not overflow the wait goes on.
LEMMA SumOverflows ==
  ASSUME NEW t \in 0 .. Top, NEW w \in 1 .. Top
  PROVE  t < Wrap(t + w) <=> t + w <= Top
  BY WidthsArePositive DEF Wrap

LEMMA StartKeeps ==
  ASSUME TimersInv, Start
  PROVE  TimersInv'
  <1>1. /\ phase = "idle" /\ fWaitFor >= 1 /\ turns' = 0
        /\ UNCHANGED <<kind, fWaitFor, fDigitalTimer, compiled, capabilities, counter, ended>>
        /\ phase' \in {"loop", "fault"} /\ (phase' = "fault" => kind = "hardware")
        /\ (kind = "hardware" /\ phase' = "loop" => capabilities \div Shift # 0)
    BY DEF Start, HpetPeriod
  <1>2. TimersTypeOK'
    BY <1>1, WidthsArePositive DEF TimersInv, TimersTypeOK
  <1>3. Counting'
    <2>1. fWaitFor \in 1 .. Top /\ ended \in 0 .. 2
      BY <1>1, WidthsArePositive DEF TimersInv, TimersTypeOK, Waits
    <2>2. 0 \in 0 .. Top + 1 - fWaitFor
      BY <2>1, WidthsArePositive
    <2> QED
      BY <1>1, <2>1, <2>2 DEF TimersInv, Counting
  <1>4. Polling'
    BY <1>1 DEF Polling
  <1> QED
    BY <1>1, <1>2, <1>3, <1>4 DEF TimersInv

LEMMA LoopKeeps ==
  ASSUME TimersInv, Loop
  PROVE  TimersInv'
  <1>1. /\ phase = "loop"
        /\ UNCHANGED <<kind, fWaitFor, compiled, capabilities, counter, phase, ended>>
        /\ turns' = IF turns <= Top THEN turns + 1 ELSE turns
    BY DEF Loop
  <1>2. /\ fWaitFor \in Waits /\ fDigitalTimer \in -(Top + 1) .. Top /\ ended \in 0 .. 2
        /\ turns \in 0 .. Top + 1 /\ kind \in {"software", "hardware"}
    BY DEF TimersInv, TimersTypeOK
  <1>3. fDigitalTimer' = IF kind = "software" THEN Wrap(fDigitalTimer + 1) ELSE fDigitalTimer
    BY DEF Loop
  <1>4. fDigitalTimer' \in -(Top + 1) .. Top
    BY <1>2, <1>3, WrapTyped
  <1>5. turns' \in 0 .. Top + 1
    BY <1>1, <1>2, WidthsArePositive
  <1>6. TimersTypeOK'
    BY <1>1, <1>4, <1>5 DEF TimersInv, TimersTypeOK
  <1>7. Counting'
    <2> SUFFICES ASSUME kind = "software", compiled = "wraps" PROVE Counting'
      BY <1>1 DEF Counting
    <2>1. fDigitalTimer < Wrap(fDigitalTimer + fWaitFor)
      BY DEF Loop, StillWaiting
    <2>2. fWaitFor >= 1 /\ fWaitFor \in 1 .. Top
      BY <1>1, <1>2, WidthsArePositive DEF TimersInv, Counting, Waits
    <2>3. fDigitalTimer \in 0 .. Top + 1 - fWaitFor
      BY <1>1, <1>2, <2>2, WidthsArePositive DEF TimersInv, Counting
    <2>4. fDigitalTimer + fWaitFor <= Top /\ fDigitalTimer \in 0 .. Top
      BY <2>1, <2>2, <2>3, SumOverflows, WidthsArePositive
    <2>5. ended = 0 /\ turns = fDigitalTimer
      BY <1>1, <1>2, <2>2, <2>4, WidthsArePositive DEF TimersInv, Counting
    <2>6. fDigitalTimer' = fDigitalTimer + 1 /\ turns' = turns + 1
      BY <1>1, <1>3, <2>2, <2>4, <2>5, WidthsArePositive DEF Wrap
    <2>7. fDigitalTimer' \in 0 .. Top + 1 - fWaitFor
      BY <2>2, <2>4, <2>6, WidthsArePositive
    <2> QED
      BY <1>1, <2>2, <2>5, <2>6, <2>7 DEF Counting
  <1>8. Polling'
    <2>1. kind = "hardware" => /\ capabilities \div Shift # 0
                               /\ capabilities < fWaitFor \div (capabilities \div Shift)
      BY <1>1 DEF Loop, Polled, Ticks, HpetPeriod, TimersInv, Polling
    <2> QED
      BY <1>1, <2>1 DEF Polling
  <1> QED
    BY <1>1, <1>6, <1>7, <1>8 DEF TimersInv

LEMMA ReturnKeeps ==
  ASSUME TimersInv, Return
  PROVE  TimersInv'
  <1>1. /\ phase = "loop" /\ phase' = "idle"
        /\ UNCHANGED <<kind, fWaitFor, fDigitalTimer, compiled, capabilities, counter, turns>>
        /\ ended' = IF ended < 2 THEN ended + 1 ELSE ended
    BY DEF Return
  <1>2. ended \in 0 .. 2 /\ ended' \in 1 .. 2 /\ (ended > 0 => ended' = 2)
        /\ (ended = 0 => ended' = 1)
    BY <1>1 DEF TimersInv, TimersTypeOK
  <1>3. TimersTypeOK'
    BY <1>1, <1>2 DEF TimersInv, TimersTypeOK
  <1>4. kind = "software" => compiled # "endless" /\ ~StillWaiting
    BY DEF Return, StillWaiting
  <1>5. Counting'
    <2> SUFFICES ASSUME kind = "software", compiled = "wraps" PROVE Counting'
      BY <1>1 DEF Counting
    <2>1. ~(fDigitalTimer < Wrap(fDigitalTimer + fWaitFor))
      BY <1>4 DEF StillWaiting
    <2>2. fWaitFor >= 1 /\ fWaitFor \in 1 .. Top
      BY <1>1, WidthsArePositive DEF TimersInv, TimersTypeOK, Counting, Waits
    <2>3. CASE ended = 0
      <3>1. turns = fDigitalTimer /\ fDigitalTimer \in 0 .. Top + 1 - fWaitFor
        BY <1>1, <2>3 DEF TimersInv, Counting
      <3>2. fDigitalTimer \in 0 .. Top
        BY <2>2, <3>1, WidthsArePositive
      <3>3. ~(fDigitalTimer + fWaitFor <= Top)
        BY <2>1, <2>2, <3>2, SumOverflows
      <3>4. fDigitalTimer = Top + 1 - fWaitFor
        BY <2>2, <3>1, <3>3, WidthsArePositive
      <3> QED
        BY <1>1, <1>2, <2>2, <2>3, <3>1, <3>4 DEF Counting
    <2>4. CASE ended > 0
      <3>1. fDigitalTimer = Top + 1 - fWaitFor /\ turns = 0
        BY <1>1, <2>4 DEF TimersInv, Counting
      <3> QED
        BY <1>1, <1>2, <2>2, <2>4, <3>1 DEF Counting
    <2> QED
      BY <1>2, <2>3, <2>4
  <1>6. Polling'
    BY <1>1 DEF Polling
  <1>7. compiled # "endless"
    BY <1>4 DEF TimersInv
  <1> QED
    BY <1>1, <1>3, <1>5, <1>6, <1>7 DEF TimersInv

LEMMA TimersKept == TimersInv /\ [Next]_vars => TimersInv'
  <1> SUFFICES ASSUME TimersInv, [Next]_vars PROVE TimersInv'
    OBVIOUS
  <1>1. CASE UNCHANGED timerVars
    BY <1>1 DEF timerVars, TimersInv, TimersTypeOK, Counting, Polling
  <1>2. CASE Tick
    BY <1>2 DEF Tick, TimersInv, TimersTypeOK, Counting, Polling
  <1>3. TimersNext \/ UNCHANGED timerVars
    BY DEF Next, vars
  <1> QED
    BY <1>1, <1>2, <1>3, StartKeeps, LoopKeeps, ReturnKeeps DEF TimersNext

\* A hardware wait that returns has not turned once.
LEMMA HardwareAtOnce ==
  ASSUME TimersInv, TimersNext, kind = "hardware", phase = "loop", phase' = "idle"
  PROVE  turns = 0
  <1>1. Return
    BY DEF TimersNext, Start, Loop, Tick
  <1>2. capabilities \div Shift # 0 /\ capabilities \in Nat
    BY DEF TimersInv, Polling
  <1> DEFINE d == capabilities \div Shift
             target == fWaitFor \div d
  <1>3. capabilities >= target
    BY <1>1 DEF Return, Polled, Ticks, HpetPeriod
  <1>4. d \in Nat \ {0}
    BY <1>2, WidthsArePositive
  <1>5. target \in Int
    <2>1. fWaitFor \in Int
      BY WidthsArePositive DEF TimersInv, TimersTypeOK, Waits
    <2> HIDE DEF d
    <2> QED
      BY <1>4, <2>1
  <1>6. turns > 0 => capabilities < target
    BY DEF TimersInv, Polling
  <1>7. turns \in 0 .. Top + 1
    BY DEF TimersInv, TimersTypeOK
  <1> HIDE DEF target
  <1> QED
    BY <1>2, <1>3, <1>5, <1>6, <1>7, WidthsArePositive

\* The safety half of WaitsSound: one caller holds the semaphore, a Yes after a
\* wait follows a refusal and a silent holder keeps it (Semaphore.cc:28, :49);
\* a delegate that saw the flag says so (LockDelegate.h:56); a software wait
\* lasts until its sum overflows (Timer.cc:41) and a hardware wait never lasts
\* (HalTimerAMD64.cc:82): for all callers, polls and widths of a word.
THEOREM WaitsAreSafe ==
  Spec => /\ [](OneHolder /\ DoneIfSeen /\ OverflowEndsWait)
          /\ YesAfterRefusal /\ SilentHolderStays /\ HardwareNeverWaits
  <1>1. Init => SemInv /\ LockInv /\ TimersInv
    BY SemBegin, LockBegin, TimersBegin DEF Init
  <1>2. SemInv /\ LockInv /\ TimersInv => OneHolder /\ DoneIfSeen /\ OverflowEndsWait
    <2> SUFFICES ASSUME SemInv, LockInv, TimersInv
                 PROVE  OneHolder /\ DoneIfSeen /\ OverflowEndsWait
      OBVIOUS
    <2>1. OverflowEndsWait
      BY DEF TimersInv, TimersTypeOK, Counting, OverflowEndsWait
    <2> QED
      BY <2>1 DEF SemInv, LockInv
  <1>3. SemInv /\ [Next]_vars =>
          /\ [\A c \in Callers : at[c] = "wait" /\ told'[c] = "Yes" => refused[c]]_semVars
          /\ [\A c \in Callers : fLockingProcess = c /\ told[c] # "Yes"
                                   => fLockingProcess' = c]_semVars
    <2> SUFFICES ASSUME SemInv, [Next]_vars
                 PROVE  /\ [\A c \in Callers : at[c] = "wait" /\ told'[c] = "Yes" => refused[c]]_semVars
                        /\ [\A c \in Callers : fLockingProcess = c /\ told[c] # "Yes"
                                                 => fLockingProcess' = c]_semVars
      OBVIOUS
    <2>1. SemNext \/ UNCHANGED semVars
      BY DEF Next, vars
    <2> QED
      BY <2>1, YesWhenRefused, HolderStays
  <1>4. TimersInv /\ [Next]_vars =>
          [kind = "hardware" /\ phase = "loop" /\ phase' = "idle" => turns = 0]_timerVars
    <2>1. [Next]_vars => TimersNext \/ UNCHANGED timerVars
      BY DEF Next, vars
    <2> QED
      BY <2>1, HardwareAtOnce
  <1> QED
    BY <1>1, <1>2, <1>3, <1>4, SemKept, LockKept, TimersKept,
       PTL DEF Spec, YesAfterRefusal, SilentHolderStays, HardwareNeverWaits

-----------------------------------------------------------------------------
(***************************************************************************)
(* Texts and containers                                                    *)
(***************************************************************************)

ContainersInv == ContainersTypeOK /\ FirstStays /\ base = NoItem

LEMMA ContainersBegin == ContainersInit => ContainersInv
  BY DEF ContainersInit, ContainersInv, ContainersTypeOK, FirstStays

LEMMA ContainersKept == ContainersInv /\ [Next]_vars => ContainersInv'
  <1> SUFFICES ASSUME ContainersInv, [Next]_vars PROVE ContainersInv'
    OBVIOUS
  <1> USE DEF ContainersInv, ContainersTypeOK, FirstStays
  <1>1. CASE UNCHANGED containerVars
    BY <1>1 DEF containerVars
  <1>2. CASE Step
    BY <1>2 DEF Step
  <1>3. ASSUME NEW v \in Items, Add(v) PROVE ContainersInv'
    BY <1>3, ItemsAssumption DEF Add
  <1>4. ASSUME NEW i \in {0, 1}, RemoveIndex(i) PROVE ContainersInv'
    BY <1>4 DEF RemoveIndex
  <1>5. ArrayNext \/ Step \/ UNCHANGED containerVars
    BY DEF Next, vars
  <1> QED
    BY <1>1, <1>2, <1>3, <1>4, <1>5 DEF ArrayNext

KStrings == [state : {"none", "empty", "stopped", "built", "dead"}, size : 0 .. TextRoom,
             content : Seq(Bytes), said : Seq(Bytes), odd : BOOLEAN, added : 0 .. 2]

\* Without an empty text among them, the bytes are what was meant: no zero is
\* among them.
StringsInv ==
    /\ text \in Texts /\ needle \in Texts
    /\ kstr \in KStrings
    /\ ~kstr.odd => /\ kstr.content = kstr.said
                    /\ \A i \in 1 .. Len(kstr.said) : kstr.said[i] # 0

LEMMA StringsBegin == StringsInit => StringsInv
  <1> SUFFICES ASSUME StringsInit PROVE StringsInv
    OBVIOUS
  <1>1. NoString \in KStrings
    <2>1. 0 \in 0 .. TextRoom /\ 0 \in 0 .. 2
      BY RoomForText
    <2>2. <<>> \in Seq(Bytes)
      OBVIOUS
    <2> QED
      BY <2>1, <2>2 DEF NoString, KStrings
  <1>2. NoString.content = NoString.said /\ \A i \in 1 .. Len(NoString.said) : NoString.said[i] # 0
    BY DEF NoString
  <1> QED
    BY <1>1, <1>2 DEF StringsInit, StringsInv

\* What a text is: letters up to a zero, and a zero at the end of its memory.
LEMMA TextIs ==
  ASSUME NEW m \in Texts
  PROVE  /\ m \in Seq(Bytes) /\ Len(m) = TextRoom + 1 /\ m[TextRoom + 1] = 0
         /\ \A i \in 1 .. TextRoom + 1 : m[i] \in Bytes
         /\ TextRoom \in Nat \ {0}
  <1>0. TextRoom \in Nat \ {0}
    BY RoomForText
  <1>1. PICK t \in [1 .. TextRoom -> Bytes] : m = Append(t, 0)
    BY DEF Texts
  <1>2. t \in Seq(Bytes) /\ Len(t) = TextRoom
    BY <1>0
  <1>3. 0 \in Bytes
    BY DEF Bytes
  <1>4. m \in Seq(Bytes) /\ Len(m) = TextRoom + 1 /\ m[TextRoom + 1] = 0
    BY <1>0, <1>1, <1>2, <1>3
  <1> QED
    BY <1>0, <1>4

\* Length is the place of the first zero.
LEMMA LengthIs ==
  ASSUME NEW m \in Texts
  PROVE  /\ Length(m) \in 0 .. TextRoom /\ m[Length(m) + 1] = 0
         /\ \A i \in 0 .. Length(m) - 1 : m[i + 1] # 0
  <1> DEFINE Z == {i \in 0 .. TextRoom : m[i + 1] = 0}
  <1>1. Z \subseteq Nat /\ TextRoom \in Z
    BY TextIs
  <1>2. Min(Z) \in Z /\ \A y \in Z : Min(Z) <= y
    <2> HIDE DEF Z
    <2> QED
      BY <1>1, MinIs
  <1>3. Length(m) = Min(Z)
    BY DEF Length
  <1>4. \A i \in 0 .. Min(Z) - 1 : m[i + 1] # 0
    <2> SUFFICES ASSUME NEW i \in 0 .. Min(Z) - 1, m[i + 1] = 0 PROVE FALSE
      OBVIOUS
    <2>1. Min(Z) \in 0 .. TextRoom /\ TextRoom \in Nat
      BY <1>2, TextIs
    <2>2. i \in Z /\ ~(Min(Z) <= i)
      BY <2>1
    <2> QED
      BY <1>2, <2>2
  <1> QED
    BY <1>2, <1>3, <1>4

\* rt_string_len (Utils.cc:50) does not look at the first byte.
LEMMA StrLenIs ==
  ASSUME NEW m \in Texts
  PROVE  /\ StrLen(m) \in 1 .. TextRoom + 1
         /\ NonEmpty(m) => StrLen(m) = Length(m)
  <1> DEFINE Z == {i \in 1 .. Len(m) : Byte(m, i) = 0}
  <1>0. Len(m) = TextRoom + 1 /\ TextRoom \in Nat \ {0}
    BY TextIs
  <1>1. Z \subseteq Nat /\ TextRoom + 1 \in Z
    BY <1>0 DEF Byte
  <1>2. Min(Z) \in Z /\ \A y \in Z : Min(Z) <= y
    <2> HIDE DEF Z
    <2> QED
      BY <1>1, MinIs
  <1>3. StrLen(m) = Min(Z)
    BY DEF StrLen
  <1>4. ASSUME NonEmpty(m) PROVE Min(Z) = Length(m)
    <2> DEFINE l == Length(m)
    <2>1. l \in 0 .. TextRoom /\ m[l + 1] = 0 /\ \A i \in 0 .. l - 1 : m[i + 1] # 0
      BY LengthIs
    <2>2. l # 0
      BY <1>4, <2>1 DEF NonEmpty
    <2>3. l \in Z
      BY <1>0, <2>1, <2>2 DEF Byte
    <2>4. ASSUME NEW y \in Z PROVE l <= y
      <3>1. y \in 1 .. TextRoom + 1 /\ (y < TextRoom + 1 => m[y + 1] = 0)
        BY <1>0, <2>4 DEF Byte
      <3>2. y \in 0 .. l - 1 => m[y + 1] # 0
        BY <2>1
      <3> QED
        BY <1>0, <2>1, <3>1, <3>2
    <2>5. Min(Z) <= l /\ l <= Min(Z)
      BY <1>2, <2>3, <2>4
    <2>6. Min(Z) \in Nat /\ l \in Nat
      BY <1>1, <1>2, <2>1
    <2> HIDE DEF l, Z
    <2>7. Min(Z) = l
      BY <2>5, <2>6
    <2> QED
      BY <2>7 DEF l
  <1> QED
    BY <1>0, <1>2, <1>3, <1>4

\* A stretch of a text, element by element.
LEMMA StretchIs ==
  ASSUME NEW m \in Texts, NEW i \in Nat, NEW n \in Nat, i + n <= TextRoom + 1
  PROVE  SubSeq(m, i + 1, i + n) = [k \in 1 .. n |-> m[i + k]]
  <1>1. m \in Seq(Bytes) /\ Len(m) = TextRoom + 1 /\ TextRoom \in Nat
    BY TextIs
  <1>2. i + 1 \in 1 .. Len(m) + 1 /\ i + n \in i .. Len(m)
    BY <1>1
  <1>3. /\ SubSeq(m, i + 1, i + n) \in Seq(Bytes)
        /\ Len(SubSeq(m, i + 1, i + n)) = n
        /\ \A k \in 1 .. n : SubSeq(m, i + 1, i + n)[k] = m[i + k]
    BY <1>1, <1>2, SubSeqProperties
  <1> QED
    BY <1>3

LEMMA ValueIs ==
  ASSUME NEW m \in Texts
  PROVE  /\ Value(m) = [k \in 1 .. Length(m) |-> m[k]]
         /\ Len(Value(m)) = Length(m) /\ Value(m) \in Seq(Bytes)
  <1>1. Length(m) \in 0 .. TextRoom /\ TextRoom \in Nat /\ m \in Seq(Bytes) /\ Len(m) = TextRoom + 1
    BY LengthIs, TextIs
  <1>2. SubSeq(m, 0 + 1, 0 + Length(m)) = [k \in 1 .. Length(m) |-> m[0 + k]]
    BY <1>1, StretchIs
  <1>3. \A k \in 1 .. Length(m) : m[0 + k] = m[k] /\ m[k] \in Bytes
    BY <1>1
  <1>4. Value(m) = [k \in 1 .. Length(m) |-> m[k]]
    BY <1>1, <1>2, <1>3 DEF Value
  <1> QED
    BY <1>1, <1>3, <1>4

LEMMA ValuesEqual ==
  ASSUME NEW a \in Texts, NEW b \in Texts
  PROVE  Value(a) = Value(b) <=> /\ Length(a) = Length(b)
                                 /\ \A i \in 0 .. Length(b) - 1 : a[i + 1] = b[i + 1]
  <1>1. /\ Value(a) = [k \in 1 .. Length(a) |-> a[k]] /\ Len(Value(a)) = Length(a)
        /\ Value(b) = [k \in 1 .. Length(b) |-> b[k]] /\ Len(Value(b)) = Length(b)
        /\ Length(a) \in Nat /\ Length(b) \in Nat
    BY ValueIs, LengthIs, TextIs
  <1>2. ASSUME Value(a) = Value(b)
        PROVE  Length(a) = Length(b) /\ \A i \in 0 .. Length(b) - 1 : a[i + 1] = b[i + 1]
    <2>1. Length(a) = Length(b)
      BY <1>1, <1>2
    <2>2. ASSUME NEW i \in 0 .. Length(b) - 1 PROVE a[i + 1] = b[i + 1]
      <3>1. i + 1 \in 1 .. Length(b)
        BY <1>1
      <3>2. Value(a)[i + 1] = a[i + 1] /\ Value(b)[i + 1] = b[i + 1]
        BY <1>1, <2>1, <3>1
      <3> QED
        BY <1>2, <3>2
    <2> QED
      BY <2>1, <2>2
  <1>3. ASSUME Length(a) = Length(b), \A i \in 0 .. Length(b) - 1 : a[i + 1] = b[i + 1]
        PROVE  Value(a) = Value(b)
    <2>1. ASSUME NEW k \in 1 .. Length(b) PROVE a[k] = b[k]
      <3>1. k - 1 \in 0 .. Length(b) - 1 /\ (k - 1) + 1 = k
        BY <1>1
      <3> QED
        BY <1>3, <3>1
    <2> QED
      BY <1>1, <1>3, <2>1
  <1> QED
    BY <1>2, <1>3

\* rt_string_cmp (Utils.cc) answers 0 for equal bytes only.
LEMMA CmpIs ==
  ASSUME NEW a, NEW b, NEW n \in Nat
  PROVE  StrCmp(a, b, n) = 0 <=> \A i \in 0 .. n - 1 : Byte(a, i) = Byte(b, i)
  <1> DEFINE D == {i \in 0 .. n - 1 : Byte(a, i) # Byte(b, i)}
  <1>1. IsFiniteSet(0 .. n - 1)
    BY FS_Interval
  <1>2. IsFiniteSet(D)
    BY <1>1, FS_Subset
  <1>3. Cardinality(D) = 0 <=> D = {}
    BY <1>2, FS_EmptySet
  <1>4. StrCmp(a, b, n) = Cardinality(D)
    BY DEF StrCmp
  <1> QED
    BY <1>3, <1>4

\* Texts that are not empty, and what the routines see of them.
LEMMA ByteIs ==
  ASSUME NEW m \in Texts, NEW i \in 0 .. TextRoom
  PROVE  Byte(m, i) = m[i + 1]
  BY TextIs DEF Byte

LEMMA BehindIs ==
  ASSUME NEW m \in Texts, NEW i \in 0 .. TextRoom, NEW k \in Nat
  PROVE  Byte(From(m, i), k) = IF i + k <= TextRoom THEN m[i + k + 1] ELSE 0
  <1>1. m \in Seq(Bytes) /\ Len(m) = TextRoom + 1 /\ TextRoom \in Nat
    BY TextIs
  <1> DEFINE n == TextRoom + 1 - i
  <1>2. n \in Nat /\ i + n = TextRoom + 1 /\ i \in Nat
    BY <1>1
  <1> HIDE DEF n
  <1>3. SubSeq(m, i + 1, i + n) = [j \in 1 .. n |-> m[i + j]]
    BY <1>1, <1>2, StretchIs
  <1>4. From(m, i) = [j \in 1 .. n |-> m[i + j]]
    BY <1>1, <1>2, <1>3 DEF From
  <1>5. Len(From(m, i)) = n
    <2>1. From(m, i) \in Seq(Bytes)
      BY <1>1, <1>2, <1>4
    <2> QED
      BY <1>2, <1>4, <2>1
  <1>6. CASE k < n
    <2>1. From(m, i)[k + 1] = m[i + (k + 1)] /\ i + (k + 1) = i + k + 1
      BY <1>2, <1>4, <1>6
    <2>2. i + k <= TextRoom
      BY <1>1, <1>2, <1>6
    <2> QED
      BY <1>5, <1>6, <2>1, <2>2 DEF Byte
  <1>7. CASE ~(k < n)
    <2>1. ~(i + k <= TextRoom)
      BY <1>1, <1>2, <1>7
    <2> QED
      BY <1>5, <1>7, <2>1 DEF Byte
  <1> QED
    BY <1>6, <1>7

\* Two texts that agree over the length of the second: it is a prefix.
LEMMA NoZeroBefore ==
  ASSUME NEW m \in Texts, NonEmpty(m)
  PROVE  Length(m) \in 1 .. TextRoom /\ \A i \in 0 .. Length(m) - 1 : m[i + 1] # 0
  <1>1. Length(m) \in 0 .. TextRoom /\ m[Length(m) + 1] = 0 /\ TextRoom \in Nat
        /\ \A i \in 0 .. Length(m) - 1 : m[i + 1] # 0
    BY LengthIs, TextIs
  <1>2. Length(m) # 0
    BY <1>1 DEF NonEmpty
  <1> QED
    BY <1>1, <1>2

-----------------------------------------------------------------------------

\* rt_string_in_string (Utils.cc:187) matches where the text has the needle,
\* although it goes on comparing behind the end of the text.
LEMMA SearchExact ==
  ASSUME NEW m \in Texts, NEW w \in Texts, NonEmpty(m), NonEmpty(w)
  PROVE  {i \in 0 .. StrLen(m) - 1 : StrCmp(From(m, i), w, StrLen(w)) = 0}
           = {i \in 0 .. Length(m) - Length(w) : SubSeq(m, i + 1, i + Length(w)) = Value(w)}
  <1> DEFINE L == Length(m)
             n == Length(w)
             R == TextRoom
  <1>1. /\ L \in 1 .. R /\ n \in 1 .. R /\ R \in Nat /\ m[L + 1] = 0
        /\ \A i \in 0 .. n - 1 : w[i + 1] # 0
        /\ StrLen(m) = L /\ StrLen(w) = n
    BY NoZeroBefore, StrLenIs, LengthIs, TextIs
  <1>2. Value(w) = [k \in 1 .. n |-> w[k]]
    BY ValueIs
  <1>3. \A i \in 0 .. L - 1 : StrCmp(From(m, i), w, n) = 0
            <=> \A k \in 0 .. n - 1 : (IF i + k <= R THEN m[i + k + 1] ELSE 0) = w[k + 1]
    <2> SUFFICES ASSUME NEW i \in 0 .. L - 1
                 PROVE  StrCmp(From(m, i), w, n) = 0
                   <=> \A k \in 0 .. n - 1 : (IF i + k <= R THEN m[i + k + 1] ELSE 0) = w[k + 1]
      OBVIOUS
    <2>1. i \in 0 .. R /\ n \in Nat
      BY <1>1
    <2>2. ASSUME NEW k \in 0 .. n - 1
          PROVE  /\ Byte(From(m, i), k) = IF i + k <= R THEN m[i + k + 1] ELSE 0
                 /\ Byte(w, k) = w[k + 1]
      <3>1. k \in Nat /\ k \in 0 .. R
        BY <1>1
      <3> QED
        BY <2>1, <3>1, BehindIs, ByteIs
    <2>3. StrCmp(From(m, i), w, n) = 0 <=> \A k \in 0 .. n - 1 : Byte(From(m, i), k) = Byte(w, k)
      BY <2>1, CmpIs
    <2> HIDE DEF n
    <2> QED
      BY <2>2, <2>3
  <1>4. \A i \in 0 .. L - n : SubSeq(m, i + 1, i + n) = [k \in 1 .. n |-> m[i + k]]
    <2> SUFFICES ASSUME NEW i \in 0 .. L - n
                 PROVE  SubSeq(m, i + 1, i + n) = [k \in 1 .. n |-> m[i + k]]
      OBVIOUS
    <2>1. i \in Nat /\ n \in Nat /\ i + n <= TextRoom + 1
      BY <1>1
    <2> HIDE DEF n
    <2> QED
      BY <2>1, StretchIs
  <1> HIDE DEF L, n, R
  <1>5. ASSUME NEW i \in 0 .. L - 1,
               \A k \in 0 .. n - 1 : (IF i + k <= R THEN m[i + k + 1] ELSE 0) = w[k + 1]
        PROVE  i \in 0 .. L - n /\ [k \in 1 .. n |-> m[i + k]] = [k \in 1 .. n |-> w[k]]
    <2>1. i + n <= L
      <3> SUFFICES ASSUME ~(i + n <= L) PROVE FALSE
        OBVIOUS
      <3>1. L - i \in 0 .. n - 1 /\ i + (L - i) <= R /\ i + (L - i) + 1 = L + 1
        BY <1>1
      <3>2. m[L + 1] = w[(L - i) + 1]
        BY <1>5, <3>1
      <3> QED
        BY <1>1, <3>1, <3>2
    <2>2. ASSUME NEW k \in 1 .. n PROVE m[i + k] = w[k]
      <3>1. k - 1 \in 0 .. n - 1 /\ i + (k - 1) <= R /\ i + (k - 1) + 1 = i + k /\ (k - 1) + 1 = k
        BY <1>1, <2>1
      <3> QED
        BY <1>5, <3>1
    <2> QED
      BY <1>1, <2>1, <2>2
  <1>6. ASSUME NEW i \in 0 .. L - n, [k \in 1 .. n |-> m[i + k]] = [k \in 1 .. n |-> w[k]]
        PROVE  i \in 0 .. L - 1
               /\ \A k \in 0 .. n - 1 : (IF i + k <= R THEN m[i + k + 1] ELSE 0) = w[k + 1]
    <2>1. i \in 0 .. L - 1
      BY <1>1
    <2>2. ASSUME NEW k \in 0 .. n - 1 PROVE i + k <= R /\ m[i + k + 1] = w[k + 1]
      <3>1. k + 1 \in 1 .. n /\ i + k <= R /\ i + (k + 1) = i + k + 1
        BY <1>1
      <3>2. [j \in 1 .. n |-> m[i + j]][k + 1] = [j \in 1 .. n |-> w[j]][k + 1]
        BY <1>6
      <3> QED
        BY <3>1, <3>2
    <2> QED
      BY <2>1, <2>2
  <1> DEFINE hits == {i \in 0 .. L - 1 : StrCmp(From(m, i), w, n) = 0}
             places == {i \in 0 .. L - n : SubSeq(m, i + 1, i + n) = Value(w)}
  <1>7. hits \subseteq places
    BY <1>2, <1>3, <1>4, <1>5
  <1>8. places \subseteq hits
    BY <1>2, <1>3, <1>4, <1>6
  <1>9. hits = places
    BY <1>7, <1>8
  <1> QED
    BY <1>1, <1>9 DEF L, n

\* StringBuilder::Equals (KString.cc:132, :146).
LEMMA EqualsIs ==
  ASSUME NEW a \in Texts, NEW b \in Texts, NonEmpty(a), NonEmpty(b)
  PROVE  Equals(a, b) <=> Value(a) = Value(b)
  <1>1. /\ StrLen(a) = Length(a) /\ StrLen(b) = Length(b)
        /\ Length(a) \in 1 .. TextRoom /\ Length(b) \in 1 .. TextRoom /\ TextRoom \in Nat
    BY StrLenIs, NoZeroBefore, TextIs
  <1>2. \A i \in 0 .. Length(b) - 1 : Byte(b, i) = b[i + 1] /\ Byte(a, i) = a[i + 1]
    <2>1. \A i \in 0 .. Length(b) - 1 : i \in 0 .. TextRoom
      BY <1>1
    <2> QED
      BY <2>1, ByteIs
  <1>3. Equals(a, b) <=> /\ Length(a) = Length(b)
                         /\ \A i \in 0 .. Length(b) - 1 : a[i + 1] = b[i + 1]
    BY <1>1, <1>2 DEF Equals
  <1> QED
    BY <1>3, ValuesEqual

\* The second one ends with its second text: every text that begins with that
\* one is accepted.
LEMMA EqualsWideIs ==
  ASSUME NEW a \in Texts, NEW b \in Texts, NonEmpty(a), NonEmpty(b)
  PROVE  EqualsWide(a, b) <=> IsPrefix(Value(b), Value(a))
  <1> DEFINE L == Length(a)
             n == Length(b)
             Z == {i \in 0 .. Len(b) : Byte(b, i) = 0}
  <1>1. /\ L \in 1 .. TextRoom /\ n \in 1 .. TextRoom /\ TextRoom \in Nat
        /\ a[L + 1] = 0 /\ b[n + 1] = 0 /\ Len(b) = TextRoom + 1
        /\ \A i \in 0 .. L - 1 : a[i + 1] # 0
        /\ \A i \in 0 .. n - 1 : b[i + 1] # 0
    BY NoZeroBefore, LengthIs, TextIs
  <1>2. \A i \in 0 .. TextRoom : Byte(b, i) = b[i + 1] /\ Byte(a, i) = a[i + 1]
    BY ByteIs
  <1>3. Min(Z) = n
    <2>1. n \in Z /\ Z \subseteq Nat
      BY <1>1, <1>2
    <2>2. Min(Z) \in Z /\ \A y \in Z : Min(Z) <= y
      <3> HIDE DEF Z, n
      <3> QED
        BY <2>1, MinIs
    <2>3. \A y \in Z : ~(y < n)
      BY <1>1, <1>2
    <2>4. Min(Z) \in Nat /\ n \in Nat
      BY <1>1, <2>1, <2>2
    <2>5. ~(Min(Z) < n) /\ Min(Z) <= n
      BY <2>1, <2>2, <2>3
    <2> HIDE DEF Z, n
    <2> QED
      BY <2>4, <2>5
  <1>4. EqualsWide(a, b) <=> \A i \in 0 .. n - 1 : Byte(a, i) = Byte(b, i)
    BY <1>3 DEF EqualsWide
  <1>5. \A i \in 0 .. n - 1 : Byte(a, i) = a[i + 1] /\ Byte(b, i) = b[i + 1]
    <2>1. \A i \in 0 .. n - 1 : i \in 0 .. TextRoom
      BY <1>1
    <2> QED
      BY <1>2, <2>1
  <1>6. EqualsWide(a, b) <=> \A i \in 0 .. n - 1 : a[i + 1] = b[i + 1]
    BY <1>4, <1>5
  <1>7. /\ Value(a) = [k \in 1 .. L |-> a[k]] /\ Len(Value(a)) = L /\ Value(a) \in Seq(Bytes)
        /\ Value(b) = [k \in 1 .. n |-> b[k]] /\ Len(Value(b)) = n /\ Value(b) \in Seq(Bytes)
    BY ValueIs
  <1> HIDE DEF L, n, Z
  <1>8. SubSeq(Value(b), 1, n) = Value(b)
    BY <1>7, SubSeqFull
  <1>9. n <= L => SubSeq(Value(a), 1, n) = [k \in 1 .. n |-> a[k]]
    <2> SUFFICES ASSUME n <= L PROVE SubSeq(Value(a), 1, n) = [k \in 1 .. n |-> a[k]]
      OBVIOUS
    <2>1. \A i \in 1 .. n : Value(a)[i] \in Bytes /\ Value(a)[i] = a[i]
      BY <1>1, <1>7
    <2>2. /\ SubSeq(Value(a), 1, n) \in Seq(Bytes)
          /\ Len(SubSeq(Value(a), 1, n)) = n
          /\ \A i \in 1 .. n : SubSeq(Value(a), 1, n)[i] = Value(a)[i]
      BY <1>1, <2>1, SubSeqProperties
    <2> QED
      BY <2>1, <2>2
  <1>10. ASSUME \A i \in 0 .. n - 1 : a[i + 1] = b[i + 1]
         PROVE  IsPrefix(Value(b), Value(a))
    <2>1. n <= L
      <3> SUFFICES ASSUME ~(n <= L) PROVE FALSE
        OBVIOUS
      <3>1. L \in 0 .. n - 1
        BY <1>1
      <3> QED
        BY <1>1, <1>10, <3>1
    <2>2. \A k \in 1 .. n : a[k] = b[k]
      <3> SUFFICES ASSUME NEW k \in 1 .. n PROVE a[k] = b[k]
        OBVIOUS
      <3>1. k - 1 \in 0 .. n - 1 /\ (k - 1) + 1 = k
        BY <1>1
      <3> QED
        BY <1>10, <3>1
    <2>3. SubSeq(Value(a), 1, n) = Value(b)
      BY <1>7, <1>9, <2>1, <2>2
    <2> QED
      BY <1>7, <1>8, <2>1, <2>3 DEF IsPrefix
  <1>11. ASSUME IsPrefix(Value(b), Value(a))
         PROVE  \A i \in 0 .. n - 1 : a[i + 1] = b[i + 1]
    <2>1. n <= L /\ SubSeq(Value(b), 1, n) = SubSeq(Value(a), 1, n)
      BY <1>7, <1>11 DEF IsPrefix
    <2>2. [k \in 1 .. n |-> b[k]] = [k \in 1 .. n |-> a[k]]
      BY <1>7, <1>8, <1>9, <2>1
    <2>3. ASSUME NEW i \in 0 .. n - 1 PROVE a[i + 1] = b[i + 1]
      <3>1. i + 1 \in 1 .. n
        BY <1>1
      <3>2. [k \in 1 .. n |-> b[k]][i + 1] = [k \in 1 .. n |-> a[k]][i + 1]
        BY <2>2
      <3> QED
        BY <3>1, <3>2
    <2> QED
      BY <2>3
  <1> QED
    BY <1>6, <1>10, <1>11

\* rt_string_has_char (Utils.cc:200).
LEMMA HasCharIs ==
  ASSUME NEW m \in Texts, NonEmpty(m), NEW c
  PROVE  HasChar(m, c) # -1 <=> c \in ToSet(Value(m))
  <1> DEFINE L == Length(m)
             hits == {i \in 0 .. L - 1 : m[i + 1] = c}
  <1>1. L \in 1 .. TextRoom /\ TextRoom \in Nat /\ StrLen(m) = L
    BY NoZeroBefore, StrLenIs, TextIs
  <1>2. HasChar(m, c) = IF hits = {} THEN -1 ELSE Min(hits)
    BY <1>1 DEF HasChar
  <1>3. hits # {} => Min(hits) \in Nat
    <2>1. hits \subseteq Nat
      BY <1>1
    <2> HIDE DEF hits
    <2> QED
      BY <2>1, MinIs
  <1>4. HasChar(m, c) # -1 <=> hits # {}
    <2> HIDE DEF hits
    <2> QED
      BY <1>2, <1>3
  <1>5. Value(m) = [k \in 1 .. L |-> m[k]]
    BY ValueIs
  <1>6. c \in ToSet(Value(m)) <=> \E k \in 1 .. L : m[k] = c
    BY <1>5 DEF ToSet
  <1>7. (\E k \in 1 .. L : m[k] = c) <=> hits # {}
    <2>1. ASSUME NEW k \in 1 .. L, m[k] = c PROVE hits # {}
      <3>1. k - 1 \in 0 .. L - 1 /\ (k - 1) + 1 = k
        BY <1>1
      <3>2. k - 1 \in hits
        BY <2>1, <3>1
      <3> QED
        BY <3>2
    <2>2. ASSUME NEW i \in hits PROVE \E k \in 1 .. L : m[k] = c
      <3>1. i + 1 \in 1 .. L /\ m[i + 1] = c
        BY <1>1
      <3> QED
        BY <3>1
    <2> QED
      BY <2>1, <2>2
  <1> QED
    BY <1>4, <1>6, <1>7

\* What one += moves and what it was meant to move are the same for a text that
\* is not empty.
LEMMA ExtendedKeeps ==
  ASSUME StringsInv, NEW m \in Texts, kstr.added < 2
  PROVE  /\ Extended(m) \in KStrings
         /\ ~Extended(m).odd => /\ Extended(m).content = Extended(m).said
                                /\ \A i \in 1 .. Len(Extended(m).said) : Extended(m).said[i] # 0
  <1> DEFINE v == SubSeq(m, 1, StrLen(m))
             c == kstr.content \o v
             t == kstr.said \o Value(m)
             o == kstr.odd \/ m[1] = 0
             n == kstr.added + 1
  <1>1. kstr \in KStrings
    BY DEF StringsInv
  <1>2. v \in Seq(Bytes)
    <2>1. StrLen(m) \in 1 .. TextRoom + 1 /\ TextRoom \in Nat
      BY StrLenIs, TextIs
    <2>2. SubSeq(m, 0 + 1, 0 + StrLen(m)) = [k \in 1 .. StrLen(m) |-> m[0 + k]]
      BY <2>1, StretchIs
    <2>3. v = [k \in 1 .. StrLen(m) |-> m[k]]
      BY <2>1, <2>2
    <2>4. \A k \in 1 .. StrLen(m) : m[k] \in Bytes
      BY <2>1, TextIs
    <2> HIDE DEF v
    <2> QED
      BY <2>1, <2>3, <2>4
  <1>3. Value(m) = [k \in 1 .. Length(m) |-> m[k]] /\ Len(Value(m)) = Length(m) /\ Value(m) \in Seq(Bytes)
    BY ValueIs
  <1>4. c \in Seq(Bytes) /\ t \in Seq(Bytes) /\ n \in 0 .. 2 /\ o \in BOOLEAN
    <2> HIDE DEF v
    <2>1. kstr.content \in Seq(Bytes) /\ kstr.said \in Seq(Bytes) /\ kstr.added \in 0 .. 2
      BY <1>1 DEF KStrings
    <2> QED
      BY <1>2, <1>3, <2>1
  <1>5. Extended(m) = [kstr EXCEPT !.content = c, !.said = t, !.odd = o, !.added = n]
    BY DEF Extended
  <1>6. ASSUME ~o PROVE c = t /\ \A i \in 1 .. Len(t) : t[i] # 0
    <2>1. ~kstr.odd /\ NonEmpty(m)
      BY <1>6 DEF NonEmpty
    <2>2. kstr.content = kstr.said /\ \A i \in 1 .. Len(kstr.said) : kstr.said[i] # 0
      BY <2>1 DEF StringsInv
    <2>3. v = Value(m)
      BY <2>1, StrLenIs DEF Value
    <2>4. ASSUME NEW k \in 1 .. Len(Value(m)) PROVE Value(m)[k] # 0
      <3>1. Length(m) \in 1 .. TextRoom /\ \A i \in 0 .. Length(m) - 1 : m[i + 1] # 0
        BY <2>1, NoZeroBefore
      <3>2. k - 1 \in 0 .. Length(m) - 1 /\ (k - 1) + 1 = k
        BY <1>3, <3>1
      <3> QED
        BY <1>3, <3>1, <3>2
    <2>5. kstr.said \in Seq(Bytes)
      BY <1>1 DEF KStrings
    <2> DEFINE u == Value(m)
               k0 == kstr.said
    <2> HIDE DEF u, k0, v
    <2>6. \A i \in 1 .. Len(k0 \o u) : (k0 \o u)[i] # 0
      <3>1. k0 \in Seq(Bytes) /\ u \in Seq(Bytes)
        BY <1>3, <2>5 DEF u, k0
      <3>2. (\A i \in 1 .. Len(k0) : k0[i] # 0) /\ (\A i \in 1 .. Len(u) : u[i] # 0)
        BY <2>2, <2>4 DEF u, k0
      <3> QED
        BY <3>1, <3>2
    <2> QED
      BY <2>2, <2>3, <2>6 DEF u, k0
  <1> HIDE DEF c, t, o, n
  <1>7. Extended(m) \in KStrings
    BY <1>1, <1>4, <1>5 DEF KStrings
  <1>8. Extended(m).content = c /\ Extended(m).said = t
    BY <1>1, <1>5 DEF KStrings
  <1>9. Extended(m).odd = o
    BY <1>1, <1>5 DEF KStrings
  <1> QED
    BY <1>6, <1>7, <1>8, <1>9

LEMMA StringsKept == StringsInv /\ [Next]_vars => StringsInv'
  <1> SUFFICES ASSUME StringsInv, [Next]_vars PROVE StringsInv'
    OBVIOUS
  <1>0. text \in Texts /\ needle \in Texts /\ kstr \in KStrings
    BY DEF StringsInv
  <1>1. CASE UNCHANGED stringVars
    BY <1>1 DEF stringVars, StringsInv
  <1>2. NoString \in KStrings /\ NoString.content = <<>> /\ NoString.said = <<>>
    <2>1. 0 \in 0 .. TextRoom /\ 0 \in 0 .. 2
      BY RoomForText
    <2>2. <<>> \in Seq(Bytes)
      OBVIOUS
    <2> QED
      BY <2>1, <2>2 DEF NoString, KStrings
  <1>3. ASSUME NEW l \in 0 .. TextRoom, Build(l) PROVE StringsInv'
    <2>1. PICK z \in {"built", "stopped"} : kstr' = [NoString EXCEPT !.state = z, !.size = l]
      BY <1>3 DEF Build
    <2>2. kstr' \in KStrings /\ kstr'.content = <<>> /\ kstr'.said = <<>>
      BY <1>2, <2>1 DEF KStrings
    <2> QED
      BY <1>0, <1>3, <2>2 DEF Build, StringsInv
  <1>4. CASE Construct
    <2>1. PICK z \in {"empty", "dead", "stopped"} : kstr' = [NoString EXCEPT !.state = z]
      BY <1>4 DEF Construct
    <2>2. kstr' \in KStrings /\ kstr'.content = <<>> /\ kstr'.said = <<>>
      BY <1>2, <2>1 DEF KStrings
    <2> QED
      BY <1>0, <1>4, <2>2 DEF Construct, StringsInv
  <1>5. ASSUME NEW m \in {text, needle}, AppendChars(m) \/ AppendString(m) PROVE StringsInv'
    <2>1. kstr.added < 2 /\ kstr' = Extended(m) /\ UNCHANGED <<text, needle>> /\ m \in Texts
      BY <1>0, <1>5 DEF AppendChars, AppendString
    <2>2. /\ kstr' \in KStrings
          /\ ~kstr'.odd => /\ kstr'.content = kstr'.said
                           /\ \A i \in 1 .. Len(kstr'.said) : kstr'.said[i] # 0
      BY <2>1, ExtendedKeeps
    <2> QED
      BY <1>0, <2>1, <2>2 DEF StringsInv
  <1>6. StringsNext \/ UNCHANGED stringVars
    BY DEF Next, vars
  <1> QED
    BY <1>1, <1>3, <1>4, <1>5, <1>6 DEF StringsNext

\* A prefix, element by element.
LEMMA PrefixIs ==
  ASSUME NEW s \in Seq(Bytes), NEW t \in Seq(Bytes)
  PROVE  IsPrefix(s, t) <=> Len(s) <= Len(t) /\ \A i \in 1 .. Len(s) : s[i] = t[i]
  <1>1. SubSeq(s, 1, Len(s)) = s
    BY SubSeqFull
  <1>2. ASSUME Len(s) <= Len(t)
        PROVE  /\ Len(SubSeq(t, 1, Len(s))) = Len(s) /\ SubSeq(t, 1, Len(s)) \in Seq(Bytes)
               /\ \A i \in 1 .. Len(s) : SubSeq(t, 1, Len(s))[i] = t[i]
    BY <1>2, SubSeqProperties
  <1> DEFINE p == SubSeq(t, 1, Len(s))
  <1> HIDE DEF p
  <1>3. IsPrefix(s, t) <=> Len(s) <= Len(t) /\ s = p
    BY <1>1 DEF IsPrefix, p
  <1>4. ASSUME Len(s) <= Len(t) PROVE s = p <=> \A i \in 1 .. Len(s) : s[i] = t[i]
    <2>1. Len(p) = Len(s) /\ p \in Seq(Bytes) /\ \A i \in 1 .. Len(s) : p[i] = t[i]
      BY <1>2, <1>4 DEF p
    <2>2. s = p <=> \A i \in 1 .. Len(s) : s[i] = p[i]
      BY <2>1
    <2> QED
      BY <2>1, <2>2
  <1> QED
    BY <1>3, <1>4

\* A string ends where what was appended to it ends (KString.cc:188).
LEMMA TerminatedIs ==
  ASSUME StringsInv
  PROVE  Terminated
  <1> SUFFICES ASSUME kstr.state = "built", ~kstr.odd, Len(kstr.content) < Zeroed(kstr.size)
               PROVE  LET zeros == {i \in 0 .. Zeroed(kstr.size) - 1 : Byte(kstr.content, i) = 0}
                      IN  /\ zeros # {} /\ Min(zeros) = Len(kstr.said)
                          /\ SubSeq(kstr.content, 1, Min(zeros)) = kstr.said
    BY DEF Terminated
  <1> DEFINE c == kstr.content
             z == Zeroed(kstr.size)
             zeros == {i \in 0 .. z - 1 : Byte(c, i) = 0}
  <1>1. c \in Seq(Bytes) /\ z \in Nat /\ Len(c) < z
    BY DEF StringsInv, KStrings, Zeroed
  <1>2. kstr.said = c /\ \A i \in 1 .. Len(c) : c[i] # 0
    BY DEF StringsInv
  <1> HIDE DEF c, z
  <1>3. Len(c) \in zeros /\ zeros \subseteq Nat
    BY <1>1 DEF Byte
  <1>4. ASSUME NEW y \in zeros PROVE Len(c) <= y
    <2> SUFFICES ASSUME y < Len(c) PROVE FALSE
      BY <1>1
    <2>1. y \in Nat /\ y + 1 \in 1 .. Len(c) /\ Byte(c, y) = c[y + 1]
      BY <1>1 DEF Byte
    <2> QED
      BY <1>2, <2>1
  <1>5. Min(zeros) \in zeros /\ \A y \in zeros : Min(zeros) <= y
    <2> HIDE DEF zeros
    <2> QED
      BY <1>3, MinIs
  <1>6. Min(zeros) = Len(c)
    <2>1. Min(zeros) \in Nat /\ Len(c) \in Nat /\ Min(zeros) <= Len(c) /\ Len(c) <= Min(zeros)
      BY <1>1, <1>3, <1>4, <1>5
    <2> HIDE DEF zeros
    <2> QED
      BY <2>1
  <1>7. SubSeq(c, 1, Len(c)) = c
    BY <1>1, SubSeqFull
  <1> HIDE DEF zeros
  <1>8. zeros # {} /\ Min(zeros) = Len(kstr.said) /\ SubSeq(c, 1, Min(zeros)) = kstr.said
    BY <1>2, <1>3, <1>6, <1>7
  <1> QED
    BY <1>8 DEF zeros, c, z

\* The comparisons of a string with a text (KString.cc:45, :72).
LEMMA ComparesIs ==
  ASSUME StringsInv
  PROVE  ComparesRight
  <1> SUFFICES ASSUME kstr.state = "built", ~kstr.odd, NonEmpty(needle)
               PROVE  /\ IsText(kstr, needle) <=> /\ Length(needle) = kstr.size
                                                   /\ IsPrefix(Value(needle), kstr.said)
                      /\ IsNotText(kstr, needle) => ~IsText(kstr, needle) /\ Length(needle) = kstr.size
    BY DEF ComparesRight
  <1> DEFINE n == Length(needle)
             c == kstr.content
             w == Value(needle)
  <1>1. needle \in Texts /\ c \in Seq(Bytes)
    BY DEF StringsInv, KStrings
  <1>2. kstr.said = c /\ \A i \in 1 .. Len(c) : c[i] # 0
    BY DEF StringsInv
  <1>3. n \in 1 .. TextRoom /\ TextRoom \in Nat /\ StrLen(needle) = n
    BY <1>1, NoZeroBefore, StrLenIs, TextIs
  <1>4. /\ w = [k \in 1 .. n |-> needle[k]] /\ Len(w) = n /\ w \in Seq(Bytes)
    BY <1>1, ValueIs
  <1>5. ASSUME NEW i \in 0 .. n - 1 PROVE Byte(needle, i) = w[i + 1] /\ w[i + 1] # 0
    <2>1. i \in 0 .. TextRoom /\ i + 1 \in 1 .. n
      BY <1>3
    <2>2. Byte(needle, i) = needle[i + 1]
      BY <1>1, <2>1, ByteIs
    <2>3. needle[i + 1] # 0
      BY <1>1, NoZeroBefore
    <2> QED
      BY <1>4, <2>1, <2>2, <2>3
  <1>6. IsText(kstr, needle) <=> n = kstr.size /\ \A i \in 0 .. n - 1 : Byte(needle, i) = Byte(c, i)
    BY <1>3 DEF IsText
  <1>7. IsNotText(kstr, needle) <=> n = kstr.size /\ \A i \in 0 .. n - 1 : Byte(needle, i) # Byte(c, i)
    BY <1>3 DEF IsNotText
  <1> HIDE DEF c, n, w
  <1>8. (\A i \in 0 .. n - 1 : Byte(needle, i) = Byte(c, i)) <=> IsPrefix(w, c)
    <2>1. ASSUME \A i \in 0 .. n - 1 : Byte(needle, i) = Byte(c, i)
          PROVE  n <= Len(c) /\ \A i \in 1 .. n : w[i] = c[i]
      <3>1. n <= Len(c)
        <4> SUFFICES ASSUME Len(c) < n PROVE FALSE
          BY <1>1, <1>3
        <4>1. Len(c) \in 0 .. n - 1 /\ Byte(c, Len(c)) = 0
          BY <1>1, <1>3 DEF Byte
        <4> QED
          BY <1>5, <2>1, <4>1
      <3>2. ASSUME NEW i \in 1 .. n PROVE w[i] = c[i]
        <4>1. i - 1 \in 0 .. n - 1 /\ (i - 1) + 1 = i /\ i - 1 < Len(c)
          BY <1>1, <1>3, <3>1
        <4>2. Byte(c, i - 1) = c[i]
          BY <4>1 DEF Byte
        <4> QED
          BY <1>5, <2>1, <4>1, <4>2
      <3> QED
        BY <3>1, <3>2
    <2>2. ASSUME n <= Len(c), \A i \in 1 .. n : w[i] = c[i], NEW i \in 0 .. n - 1
          PROVE  Byte(needle, i) = Byte(c, i)
      <3>1. i + 1 \in 1 .. n /\ i < Len(c)
        BY <1>1, <1>3, <2>2
      <3>2. Byte(c, i) = c[i + 1]
        BY <3>1 DEF Byte
      <3> QED
        BY <1>5, <2>2, <3>1, <3>2
    <2>3. IsPrefix(w, c) <=> n <= Len(c) /\ \A i \in 1 .. n : w[i] = c[i]
      BY <1>1, <1>4, PrefixIs
    <2> QED
      BY <2>1, <2>2, <2>3
  <1>9. IsNotText(kstr, needle) => ~IsText(kstr, needle) /\ n = kstr.size
    <2>1. 0 \in 0 .. n - 1
      BY <1>3
    <2> QED
      BY <1>6, <1>7, <2>1
  <1>10. IsText(kstr, needle) <=> n = kstr.size /\ IsPrefix(w, kstr.said)
    BY <1>2, <1>6, <1>8
  <1> QED
    BY <1>9, <1>10 DEF n, w

-----------------------------------------------------------------------------
(***************************************************************************)
(* The JSON reader                                                         *)
(***************************************************************************)

\* The characters a text is made of, and what a buffer can hold.
Chars == {":", ",", "}", "]", "x", "newline"}
Buffers == Seq(Chars \cup {"end"})

\* The beginnings of a text are what their definition says: the smallest length
\* for which there is no such function has none, since one step more gives it.
LEMMA ShownUnfolds ==
  ASSUME NEW t \in Seq(Chars)
  PROVE  Shown(t) = [i \in 0 .. Len(t) |->
                       IF i = 0 THEN <<>>
                       ELSE IF t[i] = "newline" THEN Shown(t)[i - 1] ELSE Append(Shown(t)[i - 1], t[i])]
  <1> DEFINE Made(f, n) == f = [i \in 0 .. n |->
                                  IF i = 0 THEN <<>>
                                  ELSE IF t[i] = "newline" THEN f[i - 1] ELSE Append(f[i - 1], t[i])]
             Missing == {n \in 0 .. Len(t) : ~ \E f : Made(f, n)}
  <1>1. Missing = {}
    <2> SUFFICES ASSUME Missing # {} PROVE FALSE
      OBVIOUS
    <2>1. Missing \subseteq Nat
      OBVIOUS
    <2>2. PICK n \in Missing : \A y \in Missing : ~(<<y, n>> \in OpToRel(<, Nat))
      BY <2>1, WFMin, NatLessThanWellFounded
    <2>3. n \in 0 .. Len(t) /\ ~ \E f : Made(f, n)
      OBVIOUS
    <2>4. CASE n = 0
      <3>1. Made([i \in 0 .. 0 |-> <<>>], 0)
        OBVIOUS
      <3> QED
        BY <2>3, <2>4, <3>1
    <2>5. CASE n # 0
      <3>1. n - 1 \in 0 .. Len(t) /\ n - 1 < n /\ n \in Nat /\ n - 1 \in Nat
        BY <2>3, <2>5
      <3>2. n - 1 \notin Missing
        BY <2>2, <3>1 DEF OpToRel
      <3>3. PICK g : Made(g, n - 1)
        BY <3>1, <3>2
      <3> DEFINE h == [i \in 0 .. n |->
                         IF i # n THEN g[i]
                         ELSE IF t[n] = "newline" THEN g[n - 1] ELSE Append(g[n - 1], t[n])]
      <3>4. \A i \in 0 .. n - 1 :
              g[i] = IF i = 0 THEN <<>>
                     ELSE IF t[i] = "newline" THEN g[i - 1] ELSE Append(g[i - 1], t[i])
        BY <3>3
      <3>5. \A i \in 0 .. n :
              h[i] = IF i = 0 THEN <<>>
                     ELSE IF t[i] = "newline" THEN h[i - 1] ELSE Append(h[i - 1], t[i])
        <4> SUFFICES ASSUME NEW i \in 0 .. n
                     PROVE  h[i] = IF i = 0 THEN <<>>
                                   ELSE IF t[i] = "newline" THEN h[i - 1] ELSE Append(h[i - 1], t[i])
          OBVIOUS
        <4>1. CASE i = n
          BY <2>5, <3>1, <4>1
        <4>2. CASE i # n
          <5>1. i \in 0 .. n - 1 /\ h[i] = g[i]
            BY <3>1, <4>2
          <5>2. i # 0 => i - 1 \in 0 .. n /\ i - 1 # n
            BY <3>1, <4>2
          <5>3. i # 0 => h[i - 1] = g[i - 1]
            BY <5>2
          <5> QED
            BY <3>4, <5>1, <5>3
        <4> QED
          BY <4>1, <4>2
      <3>6. Made(h, n)
        <4> DEFINE k == [i \in 0 .. n |->
                           IF i = 0 THEN <<>>
                           ELSE IF t[i] = "newline" THEN h[i - 1] ELSE Append(h[i - 1], t[i])]
        <4>1. DOMAIN h = 0 .. n /\ DOMAIN k = 0 .. n /\ \A i \in 0 .. n : h[i] = k[i]
          BY <3>5
        <4>2. h = [i \in 0 .. n |-> h[i]] /\ k = [i \in 0 .. n |-> k[i]]
          OBVIOUS
        <4> HIDE DEF h, k
        <4>3. h = k
          BY <4>1, <4>2
        <4> QED
          BY <4>3 DEF k
      <3> HIDE DEF h
      <3> QED
        BY <2>3, <3>6
    <2> QED
      BY <2>4, <2>5
  <1>2. \E f : Made(f, Len(t))
    BY <1>1, LenProperties
  <1>3. Made(CHOOSE f : Made(f, Len(t)), Len(t))
    <2> HIDE DEF Made
    <2> QED
      BY <1>2
  <1>4. Shown(t) = CHOOSE f : Made(f, Len(t))
    BY DEF Shown
  <1> HIDE DEF Missing
  <1> QED
    BY <1>3, <1>4

\* They are texts, and the next one is longer by a character or the same.
LEMMA ShownNext ==
  ASSUME NEW t \in Seq(Chars)
  PROVE  /\ Shown(t)[0] = <<>>
         /\ \A i \in 1 .. Len(t) :
              Shown(t)[i] = IF t[i] = "newline" THEN Shown(t)[i - 1] ELSE Append(Shown(t)[i - 1], t[i])
  <1> DEFINE f == Shown(t)
  <1>1. f = [i \in 0 .. Len(t) |->
               IF i = 0 THEN <<>>
               ELSE IF t[i] = "newline" THEN f[i - 1] ELSE Append(f[i - 1], t[i])]
    BY ShownUnfolds
  <1> HIDE DEF f
  <1>2. \A i \in 0 .. Len(t) :
          f[i] = IF i = 0 THEN <<>>
                 ELSE IF t[i] = "newline" THEN f[i - 1] ELSE Append(f[i - 1], t[i])
    BY <1>1
  <1>3. Len(t) \in Nat
    BY LenProperties
  <1> QED
    BY <1>2, <1>3 DEF f

\* The first of some characters is at n.
FirstAt(s, n, S) == n \in 1 .. Len(s) /\ s[n] \in S /\ \A j \in 1 .. n - 1 : s[j] \notin S
Without(s, S) == \A j \in 1 .. Len(s) : s[j] \notin S

\* A buffer that has w and a terminator, whatever lies behind it.
Cut(s, w) == Len(w) < Len(s) /\ s[Len(w) + 1] = "end" /\ \A j \in 1 .. Len(w) : s[j] = w[j]

LEMMA UpToWithout == ASSUME NEW s, NEW S, Without(s, S) PROVE UpTo(s, S) = s
  BY DEF UpTo, Without

LEMMA UpToFirst ==
  ASSUME NEW s \in Buffers, NEW S, NEW n, FirstAt(s, n, S)
  PROVE  UpTo(s, S) = SubSeq(s, 1, n - 1)
  <1> DEFINE hits == {i \in 1 .. Len(s) : s[i] \in S}
             m == CHOOSE i \in hits : \A j \in hits : i <= j
  <1>1. Len(s) \in Nat /\ n \in hits
    BY LenProperties DEF FirstAt, Buffers
  <1>2. \A j \in hits : n <= j
    BY <1>1 DEF FirstAt
  <1>3. m \in hits /\ \A j \in hits : m <= j
    BY <1>1, <1>2
  <1>4. m = n
    BY <1>1, <1>2, <1>3
  <1>5. UpTo(s, S) = SubSeq(s, 1, m - 1)
    BY <1>1 DEF UpTo
  <1> QED
    BY <1>4, <1>5

LEMMA CStringOfText ==
  ASSUME NEW w \in Seq(Chars)
  PROVE  w \in Buffers /\ CString(w) = w
  <1>0. w \in [1 .. Len(w) -> Chars] /\ Len(w) \in Nat
    BY LenProperties
  <1>1. w \in Buffers /\ \A j \in 1 .. Len(w) : w[j] \in Chars
    BY <1>0 DEF Buffers
  <1>2. Without(w, {"end"})
    BY <1>1 DEF Without, Chars
  <1> QED
    BY <1>1, <1>2, UpToWithout DEF CString

LEMMA CStringOfCut ==
  ASSUME NEW w \in Seq(Chars), NEW s \in Buffers, Cut(s, w)
  PROVE  CString(s) = w
  <1>0. \A j \in 1 .. Len(w) : w[j] \in Chars
    BY ElementOfSeq
  <1>1. \A j \in 1 .. Len(w) : w[j] \in Chars /\ w[j] # "end"
    BY <1>0 DEF Chars
  <1>2. Len(w) \in Nat /\ Len(s) \in Nat
    BY LenProperties DEF Buffers
  <1>3. FirstAt(s, Len(w) + 1, {"end"})
    BY <1>1, <1>2 DEF FirstAt, Cut
  <1>4. CString(s) = SubSeq(s, 1, Len(w))
    BY <1>2, <1>3, UpToFirst DEF CString
  <1>5. /\ SubSeq(s, 1, Len(w)) \in Buffers /\ Len(SubSeq(s, 1, Len(w))) = Len(w)
        /\ \A j \in 1 .. Len(w) : SubSeq(s, 1, Len(w))[j] = s[j]
    BY <1>2, SubSeqProperties DEF Buffers, Cut
  <1> DEFINE b == SubSeq(s, 1, Len(w))
  <1> HIDE DEF b
  <1>6. b = w
    <2>1. w \in Buffers
      BY CStringOfText
    <2>2. b \in Buffers /\ Len(b) = Len(w) /\ \A j \in 1 .. Len(b) : b[j] = w[j]
      BY <1>5 DEF b, Cut
    <2> QED
      BY <2>1, <2>2, SeqEqual DEF Buffers
  <1> QED
    BY <1>4, <1>6 DEF b

LEMMA CutGrows ==
  ASSUME NEW w \in Seq(Chars), NEW s \in Buffers, NEW c \in Chars \cup {"end"}, Cut(s, w)
  PROVE  Append(s, c) \in Buffers /\ Cut(Append(s, c), w)
  <1>1. Len(w) \in Nat /\ Len(s) \in Nat
    BY LenProperties DEF Buffers
  <1>2. /\ Append(s, c) \in Buffers /\ Len(Append(s, c)) = Len(s) + 1
        /\ \A j \in 1 .. Len(s) : Append(s, c)[j] = s[j]
    BY AppendProperties DEF Buffers
  <1> QED
    BY <1>1, <1>2 DEF Cut

LEMMA CutMade ==
  ASSUME NEW w \in Seq(Chars)
  PROVE  Append(w, "end") \in Buffers /\ Cut(Append(w, "end"), w)
  <1>1. w \in Buffers /\ Len(w) \in Nat
    BY LenProperties, CStringOfText
  <1>2. /\ Append(w, "end") \in Buffers /\ Len(Append(w, "end")) = Len(w) + 1
        /\ Append(w, "end")[Len(w) + 1] = "end"
        /\ \A j \in 1 .. Len(w) : Append(w, "end")[j] = w[j]
    BY <1>1, AppendProperties DEF Buffers
  <1> QED
    BY <1>1, <1>2 DEF Cut

\* A part of a text is a text.
LEMMA SubSeqText ==
  ASSUME NEW s \in Seq(Chars)
  PROVE  /\ \A n \in 1 .. Len(s) : SubSeq(s, 1, n - 1) \in Seq(Chars) /\ Len(SubSeq(s, 1, n - 1)) = n - 1
         /\ \A n \in 1 .. Len(s) : SubSeq(s, n + 1, Len(s)) \in Seq(Chars)
  <1>1. Len(s) \in Nat /\ \A j \in 1 .. Len(s) : s[j] \in Chars
    BY LenProperties, ElementOfSeq
  <1> SUFFICES ASSUME NEW n \in 1 .. Len(s)
               PROVE  /\ SubSeq(s, 1, n - 1) \in Seq(Chars) /\ Len(SubSeq(s, 1, n - 1)) = n - 1
                      /\ SubSeq(s, n + 1, Len(s)) \in Seq(Chars)
    OBVIOUS
  <1>2. \A j \in 1 .. n - 1 : j \in 1 .. Len(s)
    BY <1>1
  <1>3. \A j \in n + 1 .. Len(s) : j \in 1 .. Len(s)
    BY <1>1
  <1>4. SubSeq(s, 1, n - 1) \in Seq(Chars) /\ Len(SubSeq(s, 1, n - 1)) = n - 1
    BY <1>1, <1>2, SubSeqProperties
  <1>5. SubSeq(s, n + 1, Len(s)) \in Seq(Chars)
    BY <1>1, <1>3, SubSeqProperties
  <1> QED
    BY <1>4, <1>5

\* A character more leaves the first hit where it is, or is the first hit.
LEMMA FirstStaysFirst ==
  ASSUME NEW s \in Seq(Chars), NEW c \in Chars, NEW n, NEW S, FirstAt(s, n, S)
  PROVE  /\ FirstAt(Append(s, c), n, S)
         /\ SubSeq(Append(s, c), 1, n - 1) = SubSeq(s, 1, n - 1)
         /\ SubSeq(Append(s, c), n + 1, Len(Append(s, c))) = Append(SubSeq(s, n + 1, Len(s)), c)
  <1>1. /\ Append(s, c) \in Seq(Chars) /\ Len(Append(s, c)) = Len(s) + 1
        /\ Append(s, c)[Len(s) + 1] = c
        /\ \A j \in 1 .. Len(s) : Append(s, c)[j] = s[j]
    BY AppendProperties
  <1>2. Len(s) \in Nat /\ n \in 1 .. Len(s)
    BY LenProperties DEF FirstAt
  <1>3. FirstAt(Append(s, c), n, S)
    BY <1>1, <1>2 DEF FirstAt
  <1>4. SubSeq(Append(s, c), 1, n - 1) = SubSeq(s, 1, n - 1)
    <2>1. \A j \in 1 .. n - 1 : j \in 1 .. Len(s)
      BY <1>2
    <2> QED
      BY <1>1, <1>2, <2>1
  <1>5. SubSeq(Append(s, c), n + 1, Len(s) + 1) = Append(SubSeq(s, n + 1, Len(s)), c)
    <2>0. n + 1 \in 1 .. Len(s) + 1 /\ Len(s) \in 0 .. Len(s) /\ Len(s) + 1 \in 0 .. Len(s) + 1
      BY <1>2
    <2>1. /\ SubSeq(s, n + 1, Len(s)) \in Seq(Chars)
          /\ Len(SubSeq(s, n + 1, Len(s))) = Len(s) - n
          /\ \A j \in 1 .. Len(s) - n : SubSeq(s, n + 1, Len(s))[j] = s[n + j]
      BY <1>2
    <2>2. /\ SubSeq(Append(s, c), n + 1, Len(s) + 1) \in Seq(Chars)
          /\ Len(SubSeq(Append(s, c), n + 1, Len(s) + 1)) = Len(s) + 1 - n
          /\ \A j \in 1 .. Len(s) + 1 - n :
               SubSeq(Append(s, c), n + 1, Len(s) + 1)[j] = Append(s, c)[n + j]
      BY <1>1, <1>2
    <2> DEFINE a == SubSeq(Append(s, c), n + 1, Len(s) + 1)
               d == SubSeq(s, n + 1, Len(s))
    <2> HIDE DEF a, d
    <2>3. /\ Append(d, c) \in Seq(Chars) /\ Len(Append(d, c)) = Len(d) + 1
          /\ Append(d, c)[Len(d) + 1] = c
          /\ \A j \in 1 .. Len(d) : Append(d, c)[j] = d[j]
      BY <2>1, AppendProperties DEF d
    <2>4. a \in Seq(Chars) /\ Len(a) = Len(d) + 1
      BY <1>2, <2>1, <2>2 DEF a, d
    <2>5. \A j \in 1 .. Len(a) : a[j] = Append(d, c)[j]
      <3> SUFFICES ASSUME NEW j \in 1 .. Len(a) PROVE a[j] = Append(d, c)[j]
        OBVIOUS
      <3>1. a[j] = Append(s, c)[n + j] /\ Len(d) = Len(s) - n /\ j \in 1 .. Len(s) - n + 1
        BY <1>2, <2>1, <2>2, <2>4 DEF a, d
      <3>2. CASE j \in 1 .. Len(d)
        BY <1>1, <1>2, <2>1, <2>3, <3>1, <3>2 DEF d
      <3>3. CASE j = Len(d) + 1
        BY <1>1, <1>2, <2>3, <3>1, <3>3
      <3> QED
        BY <1>2, <3>1, <3>2, <3>3
    <2>6. a = Append(d, c)
      BY <2>3, <2>4, <2>5, SeqEqual
    <2> QED
      BY <2>6 DEF a, d
  <1> QED
    BY <1>1, <1>3, <1>4, <1>5

LEMMA FirstIsNext ==
  ASSUME NEW s \in Seq(Chars), NEW c \in Chars, NEW S, Without(s, S)
  PROVE  /\ c \notin S => Without(Append(s, c), S)
         /\ c \in S => /\ FirstAt(Append(s, c), Len(s) + 1, S)
                       /\ SubSeq(Append(s, c), 1, Len(s)) = s
                       /\ SubSeq(Append(s, c), Len(s) + 2, Len(Append(s, c))) = <<>>
  <1>1. /\ Append(s, c) \in Seq(Chars) /\ Len(Append(s, c)) = Len(s) + 1
        /\ Append(s, c)[Len(s) + 1] = c
        /\ \A j \in 1 .. Len(s) : Append(s, c)[j] = s[j]
    BY AppendProperties
  <1>2. Len(s) \in Nat
    BY LenProperties
  <1>3. \A j \in 1 .. Len(s) + 1 : j \in 1 .. Len(s) \/ j = Len(s) + 1
    BY <1>2
  <1>4. c \notin S => Without(Append(s, c), S)
    BY <1>1, <1>3 DEF Without
  <1>5. c \in S => FirstAt(Append(s, c), Len(s) + 1, S)
    <2> SUFFICES ASSUME c \in S PROVE FirstAt(Append(s, c), Len(s) + 1, S)
      OBVIOUS
    <2>1. \A j \in 1 .. (Len(s) + 1) - 1 : j \in 1 .. Len(s)
      BY <1>2
    <2> QED
      BY <1>1, <1>2, <2>1 DEF FirstAt, Without
  <1>6. SubSeq(Append(s, c), 1, Len(s)) = s
    <2> DEFINE a == SubSeq(Append(s, c), 1, Len(s))
    <2>1. a \in Seq(Chars) /\ Len(a) = Len(s) /\ \A j \in 1 .. Len(s) : a[j] = Append(s, c)[j]
      BY <1>1, <1>2
    <2> HIDE DEF a
    <2>2. a = s
      BY <1>1, <2>1, SeqEqual
    <2> QED
      BY <2>2 DEF a
  <1>7. SubSeq(Append(s, c), Len(s) + 2, Len(Append(s, c))) = <<>>
    BY <1>1, <1>2
  <1> QED
    BY <1>4, <1>5, <1>6, <1>7

\* The value is what was shown of the rest, until a character ends it.
ValueRead(r) ==
    LET stops == {IF json.array THEN "]" ELSE "}", ","} IN
    \/ Without(r, stops) /\ json.value = r /\ json.probe
    \/ \E n \in 1 .. Len(r) : FirstAt(r, n, stops) /\ Cut(json.value, SubSeq(r, 1, n - 1))

\* What has been shown of the text is the key until a colon, then the value.
PairRead(b) ==
    \/ json.array /\ json.key = <<>> /\ ValueRead(b)
    \/ ~json.array /\ ~json.probe /\ Without(b, {":"}) /\ json.key = b /\ json.value = <<>>
    \/ ~json.array /\ \E n \in 1 .. Len(b) :
         /\ FirstAt(b, n, {":"}) /\ Cut(json.key, SubSeq(b, 1, n - 1))
         /\ ValueRead(SubSeq(b, n + 1, Len(b)))

JsonInv ==
    /\ json \in [text : Seq(Chars), at : Nat \ {0}, array : BOOLEAN, probe : BOOLEAN,
                 key : Buffers, value : Buffers]
    /\ json.at <= Len(json.text) + 1
    /\ Shown(json.text)[json.at - 1] \in Seq(Chars)
    /\ PairRead(Shown(json.text)[json.at - 1])

LEMMA JsonExact == JsonInv => JsonFirst
  <1> SUFFICES ASSUME JsonInv, json.at > Len(json.text) PROVE JsonFirst
    BY DEF JsonFirst
  <1> DEFINE b == Shown(json.text)[Len(json.text)]
             stops == {IF json.array THEN "]" ELSE "}", ","}
  <1>1. Len(json.text) \in Nat /\ json.at - 1 = Len(json.text)
    BY LenProperties DEF JsonInv
  <1>2. b \in Seq(Chars) /\ PairRead(b) /\ Len(b) \in Nat /\ b \in Buffers
    BY <1>1, LenProperties, CStringOfText DEF JsonInv
  <1>3. json.key \in Buffers /\ json.value \in Buffers
    BY DEF JsonInv
  <1> HIDE DEF b
  <1>4. ASSUME NEW r \in Seq(Chars), ValueRead(r)
        PROVE  CString(json.value) = UpTo(r, stops)
    <2>1. CASE Without(r, stops) /\ json.value = r
      BY <2>1, CStringOfText, UpToWithout
    <2>2. CASE \E n \in 1 .. Len(r) : FirstAt(r, n, stops) /\ Cut(json.value, SubSeq(r, 1, n - 1))
      <3>1. PICK n \in 1 .. Len(r) : FirstAt(r, n, stops) /\ Cut(json.value, SubSeq(r, 1, n - 1))
        BY <2>2
      <3>2. SubSeq(r, 1, n - 1) \in Seq(Chars) /\ r \in Buffers
        BY SubSeqText, CStringOfText
      <3> QED
        BY <1>3, <3>1, <3>2, UpToFirst, CStringOfCut
    <2> QED
      BY <1>4, <2>1, <2>2 DEF ValueRead
  <1>5. CASE json.array /\ json.key = <<>> /\ ValueRead(b)
    <2>1. CString(<<>>) = <<>>
      BY CStringOfText, EmptySeq
    <2>2. CString(json.value) = UpTo(b, stops)
      BY <1>2, <1>4, <1>5
    <2> QED
      BY <1>5, <2>1, <2>2 DEF JsonFirst, b
  <1>6. CASE ~json.array /\ ~json.probe /\ Without(b, {":"}) /\ json.key = b /\ json.value = <<>>
    <2>1. UpTo(b, {":"}) = b /\ CString(b) = b
      BY <1>2, <1>6, UpToWithout, CStringOfText
    <2>2. SubSeq(b, Len(b) + 2, Len(b)) = <<>>
      BY <1>2
    <2>3. CString(<<>>) = <<>> /\ UpTo(<<>>, stops) = <<>>
      <3>1. Len(<<>>) = 0
        BY EmptySeq
      <3>2. Without(<<>>, stops)
        <4> SUFFICES ASSUME NEW j \in 1 .. Len(<<>>) PROVE FALSE
          BY DEF Without
        <4> QED
          BY <3>1
      <3> QED
        BY <3>2, UpToWithout, CStringOfText, EmptySeq
    <2> QED
      BY <1>6, <2>1, <2>2, <2>3 DEF JsonFirst, b
  <1>7. CASE ~json.array /\ \E n \in 1 .. Len(b) :
                /\ FirstAt(b, n, {":"}) /\ Cut(json.key, SubSeq(b, 1, n - 1))
                /\ ValueRead(SubSeq(b, n + 1, Len(b)))
    <2>1. PICK n \in 1 .. Len(b) :
                /\ FirstAt(b, n, {":"}) /\ Cut(json.key, SubSeq(b, 1, n - 1))
                /\ ValueRead(SubSeq(b, n + 1, Len(b)))
      BY <1>7
    <2>2. /\ SubSeq(b, 1, n - 1) \in Seq(Chars) /\ Len(SubSeq(b, 1, n - 1)) = n - 1
          /\ SubSeq(b, n + 1, Len(b)) \in Seq(Chars)
      BY <1>2, SubSeqText
    <2>3. UpTo(b, {":"}) = SubSeq(b, 1, n - 1)
      BY <1>2, <2>1, UpToFirst
    <2>4. CString(json.key) = SubSeq(b, 1, n - 1)
      BY <1>3, <2>1, <2>2, CStringOfCut
    <2>5. CString(json.value) = UpTo(SubSeq(b, n + 1, Len(b)), stops)
      BY <1>4, <2>1, <2>2
    <2>6. n - 1 + 2 = n + 1
      BY <1>2
    <2> QED
      BY <1>7, <2>2, <2>3, <2>4, <2>5, <2>6 DEF JsonFirst, b
  <1> QED
    BY <1>2, <1>5, <1>6, <1>7 DEF PairRead

LEMMA JsonBegins == ContainersInit => JsonInv
  <1> SUFFICES ASSUME ContainersInit PROVE JsonInv
    OBVIOUS
  <1>1. PICK t \in JsonTexts, array \in BOOLEAN :
          json = [text |-> t, at |-> 1, array |-> array, probe |-> array, key |-> <<>>, value |-> <<>>]
    BY DEF ContainersInit
  <1>2. t \in Seq(Chars)
    <2>1. PICK n \in 0 .. JsonLength : t \in [1 .. n -> Chars]
      BY <1>1 DEF JsonTexts, Chars
    <2> QED
      BY <2>1, ItemsAssumption
  <1>3. Shown(t)[0] = <<>> /\ <<>> \in Seq(Chars) /\ <<>> \in Buffers /\ Len(<<>>) = 0
    BY <1>2, ShownNext, EmptySeq DEF Buffers
  <1>4. \A S : Without(<<>>, S)
    BY <1>3 DEF Without
  <1>5. json.text = t /\ json.at = 1 /\ json.at - 1 = 0 /\ Len(t) \in Nat
    BY <1>1, <1>2, LenProperties
  <1>6. PairRead(<<>>)
    BY <1>1, <1>4 DEF PairRead, ValueRead
  <1>7. json \in [text : Seq(Chars), at : Nat \ {0}, array : BOOLEAN, probe : BOOLEAN,
                  key : Buffers, value : Buffers]
    BY <1>1, <1>2, <1>3
  <1>8. Shown(json.text)[json.at - 1] = <<>>
    BY <1>3, <1>5
  <1>9. json.at <= Len(json.text) + 1
    BY <1>5
  <1>10. PairRead(Shown(json.text)[json.at - 1])
    BY <1>6, <1>8
  <1> QED
    BY <1>3, <1>7, <1>8, <1>9, <1>10 DEF JsonInv


LEMMA LastPlace == \A k \in Nat : k + 1 \in 1 .. k + 1 /\ (k + 1) - 1 = k
  OBVIOUS

\* A character of the rest goes to the value, ends it, or lies behind its end.
LEMMA ValueGrows ==
  ASSUME json.value \in Buffers, NEW r \in Seq(Chars), ValueRead(r), NEW c \in Chars,
         json'.array = json.array, json'.value \in Buffers,
         \/ /\ json.probe /\ c \in {IF json.array THEN "]" ELSE "}", ","}
            /\ json'.value = Append(json.value, "end")
         \/ /\ json.probe /\ c \notin {IF json.array THEN "]" ELSE "}", ","}
            /\ json'.value = Append(json.value, c) /\ json'.probe
         \/ ~json.probe /\ json'.value = json.value
  PROVE  ValueRead(Append(r, c))'
  <1> DEFINE stops == {IF json.array THEN "]" ELSE "}", ","}
             d == Append(r, c)
  <1>1. {IF json'.array THEN "]" ELSE "}", ","} = stops
    OBVIOUS
  <1>2. \/ Without(d, stops) /\ json'.value = d /\ json'.probe
        \/ \E n \in 1 .. Len(d) : FirstAt(d, n, stops) /\ Cut(json'.value, SubSeq(d, 1, n - 1))
    <2>1. CASE Without(r, stops) /\ json.value = r /\ json.probe
      <3>1. /\ c \notin stops => Without(d, stops)
            /\ c \in stops => /\ FirstAt(d, Len(r) + 1, stops)
                              /\ SubSeq(d, 1, Len(r)) = r
        BY <2>1, FirstIsNext
      <3>2. CASE c \notin stops
        BY <2>1, <3>1, <3>2
      <3>3. CASE c \in stops
        <4>1. json'.value = Append(r, "end")
          BY <2>1, <3>3
        <4>2. Cut(json'.value, r)
          BY <4>1, CutMade
        <4>3. Len(r) \in Nat /\ Len(d) = Len(r) + 1
          BY LenProperties, AppendProperties
        <4>4. Len(r) + 1 \in 1 .. Len(r) + 1 /\ (Len(r) + 1) - 1 = Len(r)
          BY <4>3, LastPlace
        <4>5. Len(r) + 1 \in 1 .. Len(d)
          BY <4>3, <4>4
        <4> HIDE DEF stops, d
        <4> QED
          BY <3>1, <3>3, <4>2, <4>4, <4>5
      <3> QED
        BY <3>2, <3>3
    <2>2. CASE \E n \in 1 .. Len(r) : FirstAt(r, n, stops) /\ Cut(json.value, SubSeq(r, 1, n - 1))
      <3>1. PICK n \in 1 .. Len(r) : FirstAt(r, n, stops) /\ Cut(json.value, SubSeq(r, 1, n - 1))
        BY <2>2
      <3>2. FirstAt(d, n, stops) /\ SubSeq(d, 1, n - 1) = SubSeq(r, 1, n - 1)
        BY <3>1, FirstStaysFirst
      <3>3. SubSeq(r, 1, n - 1) \in Seq(Chars)
        BY SubSeqText
      <3>4. Cut(json'.value, SubSeq(r, 1, n - 1))
        <4>1. \A e \in Chars \cup {"end"} : Cut(Append(json.value, e), SubSeq(r, 1, n - 1))
          BY <3>1, <3>3, CutGrows
        <4>2. \/ json'.value = json.value
              \/ \E e \in Chars \cup {"end"} : json'.value = Append(json.value, e)
          OBVIOUS
        <4> QED
          BY <3>1, <4>1, <4>2
      <3>5. n \in 1 .. Len(d)
        BY <3>2 DEF FirstAt
      <3> HIDE DEF stops, d
      <3> QED
        BY <3>2, <3>4, <3>5
    <2> QED
      BY <2>1, <2>2 DEF ValueRead
  <1> HIDE DEF d
  <1>3. ValueRead(d)'
    BY <1>1, <1>2 DEF ValueRead
  <1> QED
    BY <1>3 DEF d

\* A character that is not a line end goes where PairRead says: to the key, to the
\* value, or behind the terminator of one of them.
LEMMA CharRead ==
  ASSUME json.key \in Buffers, json.value \in Buffers, json.array \in BOOLEAN, json.probe \in BOOLEAN,
         DOMAIN json = {"text", "at", "array", "probe", "key", "value"},
         NEW b \in Seq(Chars), PairRead(b), NEW c \in Chars, c # "newline",
         /\ json'.array = json.array /\ json'.probe = ReadChar(c).probe
         /\ json'.key = ReadChar(c).key /\ json'.value = ReadChar(c).value
  PROVE  json'.key \in Buffers /\ json'.value \in Buffers /\ json'.probe \in BOOLEAN /\ PairRead(Append(b, c))'
  <1> DEFINE stops == {IF json.array THEN "]" ELSE "}", ","}
             d == Append(b, c)
  <1>1. \/ /\ json.probe /\ c \in stops
           /\ ~json'.probe /\ json'.key = json.key /\ json'.value = Append(json.value, "end")
        \/ /\ json.probe /\ c \notin stops
           /\ json'.probe /\ json'.key = json.key /\ json'.value = Append(json.value, c)
        \/ /\ ~json.probe /\ json.array
           /\ ~json'.probe /\ json'.key = json.key /\ json'.value = json.value
        \/ /\ ~json.probe /\ ~json.array /\ c = ":"
           /\ json'.probe /\ json'.key = Append(json.key, "end") /\ json'.value = json.value
        \/ /\ ~json.probe /\ ~json.array /\ c # ":"
           /\ ~json'.probe /\ json'.key = Append(json.key, c) /\ json'.value = json.value
    <2>1. CASE json.probe /\ c \in stops
      BY <2>1 DEF ReadChar, EndVal
    <2>2. CASE json.probe /\ c \notin stops
      BY <2>2 DEF ReadChar, EndVal
    <2>3. CASE ~json.probe /\ json.array
      BY <2>3 DEF ReadChar, EndVal
    <2>4. CASE ~json.probe /\ ~json.array /\ c = ":"
      BY <2>4 DEF ReadChar, EndVal
    <2>5. CASE ~json.probe /\ ~json.array /\ c # ":"
      BY <2>5 DEF ReadChar, EndVal
    <2> HIDE DEF stops
    <2> QED
      BY <2>1, <2>2, <2>3, <2>4, <2>5
  <1>2. json'.key \in Buffers /\ json'.value \in Buffers
    <2>1. \A s \in Buffers, e \in Chars \cup {"end"} : Append(s, e) \in Buffers
      BY AppendProperties DEF Buffers
    <2>2. c \in Chars \cup {"end"} /\ "end" \in Chars \cup {"end"}
      OBVIOUS
    <2> QED
      BY <1>1, <2>1, <2>2
  <1>3. json'.probe \in BOOLEAN
    <2>1. ReadChar(c).probe = json.probe \/ ReadChar(c).probe = TRUE \/ ReadChar(c).probe = FALSE
      BY DEF ReadChar
    <2> QED
      BY <2>1
  <1>4. ASSUME NEW r \in Seq(Chars), ValueRead(r), json.array \/ c # ":" \/ json.probe
        PROVE  ValueRead(Append(r, c))'
    <2>1. \/ json.probe /\ c \in stops /\ json'.value = Append(json.value, "end")
          \/ json.probe /\ c \notin stops /\ json'.value = Append(json.value, c) /\ json'.probe
          \/ ~json.probe /\ json'.value = json.value
      BY <1>1
    <2> QED
      BY <1>2, <1>4, <2>1, ValueGrows
  <1>5. CASE json.array /\ json.key = <<>> /\ ValueRead(b)
    <2>1. json'.array /\ json'.key = <<>>
      BY <1>1, <1>5
    <2>2. ValueRead(d)'
      BY <1>4, <1>5
    <2> HIDE DEF d
    <2>3. PairRead(d)'
      BY <2>1, <2>2 DEF PairRead
    <2> QED
      BY <1>2, <1>3, <2>3 DEF d
  <1>6. CASE ~json.array /\ ~json.probe /\ Without(b, {":"}) /\ json.key = b /\ json.value = <<>>
    <2>1. CASE c # ":"
      <3>1. ~json'.array /\ ~json'.probe /\ json'.key = d /\ json'.value = <<>>
        BY <1>1, <1>6, <2>1
      <3>2. Without(d, {":"})
        BY <1>6, <2>1, FirstIsNext
      <3> HIDE DEF d
      <3>3. PairRead(d)'
        BY <3>1, <3>2 DEF PairRead
      <3> QED
        BY <1>2, <1>3, <3>3 DEF d
    <2>2. CASE c = ":"
      <3>1. ~json'.array /\ json'.probe /\ json'.key = Append(b, "end") /\ json'.value = <<>>
        BY <1>1, <1>6, <2>2
      <3>2. /\ FirstAt(d, Len(b) + 1, {":"}) /\ SubSeq(d, 1, Len(b)) = b
            /\ SubSeq(d, Len(b) + 2, Len(d)) = <<>>
        BY <1>6, <2>2, FirstIsNext
      <3>3. Cut(json'.key, b)
        BY <3>1, CutMade
      <3>4. ValueRead(<<>>)'
        <4>1. \A S : Without(<<>>, S)
          <5> SUFFICES ASSUME NEW j \in 1 .. Len(<<>>) PROVE FALSE
            BY DEF Without
          <5> QED
            BY EmptySeq
        <4> QED
          BY <3>1, <4>1 DEF ValueRead
      <3>5. Len(b) + 1 \in 1 .. Len(d) /\ (Len(b) + 1) - 1 = Len(b) /\ (Len(b) + 1) + 1 = Len(b) + 2
        BY <3>2, LenProperties DEF FirstAt
      <3> HIDE DEF d
      <3>6. /\ FirstAt(d, Len(b) + 1, {":"}) /\ Cut(json'.key, SubSeq(d, 1, (Len(b) + 1) - 1))
            /\ ValueRead(SubSeq(d, (Len(b) + 1) + 1, Len(d)))'
        BY <3>2, <3>3, <3>4, <3>5
      <3>7. PairRead(d)'
        BY <3>1, <3>5, <3>6 DEF PairRead
      <3> QED
        BY <1>2, <1>3, <3>7 DEF d
    <2> QED
      BY <2>1, <2>2
  <1>7. CASE ~json.array /\ \E n \in 1 .. Len(b) :
                /\ FirstAt(b, n, {":"}) /\ Cut(json.key, SubSeq(b, 1, n - 1))
                /\ ValueRead(SubSeq(b, n + 1, Len(b)))
    <2>1. PICK n \in 1 .. Len(b) :
                /\ FirstAt(b, n, {":"}) /\ Cut(json.key, SubSeq(b, 1, n - 1))
                /\ ValueRead(SubSeq(b, n + 1, Len(b)))
      BY <1>7
    <2>2. SubSeq(b, 1, n - 1) \in Seq(Chars) /\ SubSeq(b, n + 1, Len(b)) \in Seq(Chars)
      BY SubSeqText
    <2>3. /\ FirstAt(d, n, {":"}) /\ SubSeq(d, 1, n - 1) = SubSeq(b, 1, n - 1)
          /\ SubSeq(d, n + 1, Len(d)) = Append(SubSeq(b, n + 1, Len(b)), c)
      BY <2>1, FirstStaysFirst
    <2>4. Cut(json'.key, SubSeq(b, 1, n - 1))
      <3>1. \A e \in Chars \cup {"end"} : Cut(Append(json.key, e), SubSeq(b, 1, n - 1))
        BY <2>1, <2>2, CutGrows
      <3>2. \/ json'.key = json.key
            \/ \E e \in Chars \cup {"end"} : json'.key = Append(json.key, e)
        BY <1>1
      <3> QED
        BY <2>1, <3>1, <3>2
    <2>5. ValueRead(Append(SubSeq(b, n + 1, Len(b)), c))'
      <3> DEFINE r == SubSeq(b, n + 1, Len(b))
      <3>1. \/ json.probe /\ c \in stops /\ json'.value = Append(json.value, "end")
            \/ json.probe /\ c \notin stops /\ json'.value = Append(json.value, c) /\ json'.probe
            \/ ~json.probe /\ json'.value = json.value
        BY <1>1
      <3> HIDE DEF r
      <3> QED
        BY <1>2, <2>1, <2>2, <3>1, ValueGrows DEF r
    <2>6. n \in 1 .. Len(d) /\ ~json'.array
      BY <1>7, <2>3 DEF FirstAt
    <2> HIDE DEF d
    <2>7. /\ FirstAt(d, n, {":"}) /\ Cut(json'.key, SubSeq(d, 1, n - 1))
          /\ ValueRead(SubSeq(d, n + 1, Len(d)))'
      BY <2>3, <2>4, <2>5
    <2>8. PairRead(d)'
      BY <2>6, <2>7 DEF PairRead
    <2> QED
      BY <1>2, <1>3, <2>8 DEF d
  <1> QED
    BY <1>5, <1>6, <1>7 DEF PairRead

\* Every turn of the loop keeps what is read of the text so far.
LEMMA JsonKept == JsonInv /\ Step => JsonInv'
  <1> SUFFICES ASSUME JsonInv, Step PROVE JsonInv'
    OBVIOUS
  <1>0. PICK t, i, c, b : t = json.text /\ i = json.at /\ c = t[i] /\ b = Shown(t)[i - 1]
    OBVIOUS
  <1>1. /\ t \in Seq(Chars) /\ i \in Nat \ {0} /\ i <= Len(t) /\ Len(t) \in Nat
        /\ json.array \in BOOLEAN /\ json.probe \in BOOLEAN /\ json.key \in Buffers /\ json.value \in Buffers
        /\ DOMAIN json = {"text", "at", "array", "probe", "key", "value"}
    BY <1>0, LenProperties DEF JsonInv, Step
  <1>2. i \in 1 .. Len(t) /\ c \in Chars
    BY <1>0, <1>1, ElementOfSeq
  <1>3. Shown(t)[i] = IF c = "newline" THEN b ELSE Append(b, c)
    BY <1>0, <1>1, <1>2, ShownNext
  <1>4. b \in Seq(Chars) /\ PairRead(b)
    BY <1>0 DEF JsonInv
  <1>5. /\ DOMAIN ReadChar(c) = DOMAIN json
        /\ ReadChar(c).text = t /\ ReadChar(c).at = i /\ ReadChar(c).array = json.array
    BY <1>0, <1>1 DEF ReadChar
  <1>6. /\ json'.text = t /\ json'.at = i + 1 /\ json'.array = json.array
        /\ json'.probe = ReadChar(c).probe /\ json'.key = ReadChar(c).key /\ json'.value = ReadChar(c).value
        /\ json' = [text |-> t, at |-> i + 1, array |-> json.array, probe |-> ReadChar(c).probe,
                    key |-> ReadChar(c).key, value |-> ReadChar(c).value]
    <2> DEFINE R == ReadChar(c)
    <2>1. json' = [R EXCEPT !.at = @ + 1]
      BY <1>0 DEF Step
    <2>2. DOMAIN R = {"text", "at", "array", "probe", "key", "value"} /\ R.text = t /\ R.at = i
          /\ R.array = json.array
      BY <1>1, <1>5
    <2> HIDE DEF R
    <2>3. json' = [text |-> R.text, at |-> R.at + 1, array |-> R.array, probe |-> R.probe,
                   key |-> R.key, value |-> R.value]
      BY <2>1, <2>2
    <2> QED
      BY <2>2, <2>3 DEF R
  <1>7. CASE c = "newline"
    <2>1. ReadChar(c) = json
      BY <1>7 DEF ReadChar
    <2>2. json'.probe = json.probe /\ json'.key = json.key /\ json'.value = json.value
      BY <1>6, <2>1
    <2>3. PairRead(b)'
      BY <1>4, <1>6, <2>2 DEF PairRead, ValueRead
    <2>4. json'.at - 1 = i /\ json'.at <= Len(json'.text) + 1
      BY <1>1, <1>6
    <2>5. json' \in [text : Seq(Chars), at : Nat \ {0}, array : BOOLEAN, probe : BOOLEAN,
                     key : Buffers, value : Buffers]
      BY <1>1, <1>6, <2>2
    <2>6. Shown(json'.text)[json'.at - 1] = b
      BY <1>3, <1>6, <1>7, <2>4
    <2> QED
      BY <1>4, <2>3, <2>4, <2>5, <2>6 DEF JsonInv
  <1>8. CASE c # "newline"
    <2>1. json'.key \in Buffers /\ json'.value \in Buffers /\ json'.probe \in BOOLEAN /\ PairRead(Append(b, c))'
      BY <1>1, <1>2, <1>4, <1>6, <1>8, CharRead
    <2>2. Append(b, c) \in Seq(Chars)
      BY <1>2, <1>4, AppendProperties
    <2>4. json'.at - 1 = i /\ json'.at <= Len(json'.text) + 1
      BY <1>1, <1>6
    <2>5. json' \in [text : Seq(Chars), at : Nat \ {0}, array : BOOLEAN, probe : BOOLEAN,
                     key : Buffers, value : Buffers]
      BY <1>1, <1>6, <2>1
    <2>6. Shown(json'.text)[json'.at - 1] = Append(b, c)
      BY <1>3, <1>6, <1>8, <2>4
    <2> QED
      BY <2>1, <2>2, <2>4, <2>5, <2>6 DEF JsonInv
  <1> QED
    BY <1>7, <1>8

LEMMA JsonReaderKept == JsonInv /\ [Next]_vars => JsonInv'
  <1> SUFFICES ASSUME JsonInv, [Next]_vars PROVE JsonInv'
    OBVIOUS
  <1>1. ArrayNext \/ Step \/ UNCHANGED containerVars
    BY DEF Next, vars
  <1>2. ArrayNext => UNCHANGED json
    BY DEF ArrayNext, Add, RemoveIndex
  <1>3. UNCHANGED json => JsonInv'
    BY DEF JsonInv, PairRead, ValueRead
  <1> QED
    BY <1>1, <1>2, <1>3, JsonKept DEF containerVars

-----------------------------------------------------------------------------
\* TextsSound: the string routines agree with what a C string is whatever lies
\* behind its end; a KString, however many texts are appended to it and however
\* far past its buffer, reads as those texts as long as none was empty and they
\* stay inside what was zeroed; it equals only texts as long as its buffer, those
\* its contents begin with; an array keeps what it was given first; and the JSON
\* reader finds the first key and the first value of its text (Utils.cc:33-200,
\* KString.cc:45-188, MutableArray.h:113, Json.h:78): for texts of any length,
\* the strings over any letters.
THEOREM TextsAreExact == Spec => []TextsSound
  <1>1. Init => StringsInv /\ ContainersInv /\ JsonInv
    BY StringsBegin, ContainersBegin, JsonBegins DEF Init
  <1>2. StringsInv /\ ContainersInv /\ JsonInv => TextsSound
    <2> SUFFICES ASSUME StringsInv, ContainersInv, JsonInv PROVE TextsSound
      OBVIOUS
    <2>0. text \in Texts /\ needle \in Texts
      BY DEF StringsInv
    <2>1. LenExact
      BY <2>0, StrLenIs, TextIs DEF LenExact
    <2>2. LimitKept
      <3> SUFFICES ASSUME NonEmpty(text), NEW limit \in 1 .. TextRoom
                   PROVE  /\ Length(text) <= limit => StrLenUpTo(text, limit) = Length(text)
                          /\ StrLenUpTo(text, limit) \in {Length(text), limit}
                          /\ StrLenUpTo(text, limit) <= limit + 1
        BY DEF LimitKept
      <3>1. StrLen(text) = Length(text) /\ Length(text) \in 1 .. TextRoom /\ TextRoom \in Nat
        BY <2>0, StrLenIs, NoZeroBefore, TextIs
      <3> QED
        BY <3>1 DEF StrLenUpTo
    <2>3. FoundExact
      <3> SUFFICES ASSUME NonEmpty(text), NonEmpty(needle) PROVE FoundExact
        BY DEF FoundExact
      <3> QED
        BY <2>0, SearchExact DEF FoundExact, StrIn
    <2>4. EqualsExact
      BY <2>0, EqualsIs, EqualsWideIs, HasCharIs DEF EqualsExact
    <2>5. ComparesRight
      BY ComparesIs
    <2>6. Terminated
      BY TerminatedIs
    <2>7. FirstStays
      BY DEF ContainersInv
    <2> QED
      BY <2>1, <2>2, <2>3, <2>4, <2>5, <2>6, <2>7, JsonExact DEF TextsSound
  <1> QED
    BY <1>1, <1>2, StringsKept, ContainersKept, JsonReaderKept, PTL DEF Spec

-----------------------------------------------------------------------------
(***************************************************************************)
(* Types                                                                   *)
(***************************************************************************)

\* TypesOK of the services: every variable of every one of them keeps its type.
THEOREM ServicesTyped == Spec => []TypesOK
  <1> DEFINE Services == /\ MessagesInv /\ UsersInv /\ PagingInv /\ FilesInv
                         /\ MemoryInv /\ LoaderInv /\ TablesInv /\ PciInv
                         /\ SemInv /\ LockInv /\ TimersInv /\ ContainersInv /\ StringsInv
  <1>1. Init => Services
    BY MessagesBegin, PagingBegin, FilesBegin, MemoryBegin, LoaderBegin, TablesBegin, PciBegin,
       SemBegin, LockBegin, TimersBegin, ContainersBegin, StringsBegin
       DEF Init, UsersInit, UsersInv
  <1>2. Services /\ [Next]_vars => Services'
    BY MessagesKept, UsersKept, PagingKept, FilesKept, MemoryKept, LoaderKept, TablesKept,
       PciKept, SemKept, LockKept, TimersKept, ContainersKept, StringsKept
  <1>3. Services => TypesOK
    <2> SUFFICES ASSUME Services PROVE TypesOK
      OBVIOUS
    <2>1. FilesTypeOK
      BY DEF FilesInv, StreamsInv, InstallInv, StreamStates, FilesTypeOK, Modes, MaxForks
    <2>2. LoaderTypeOK
      <3>1. copies \cup lost \subseteq Blocks
        BY DEF LoaderInv, Disjoint, BlocksAccounted
      <3> QED
        BY <3>1 DEF LoaderInv, LoaderStates, LoaderTypeOK
    <2>3. MemoryTypeOK /\ SemTypeOK /\ LockTypeOK /\ TimersTypeOK /\ PciTypeOK /\ ContainersTypeOK
      BY DEF MemoryInv, SemInv, LockInv, TimersInv, PciInv, ContainersInv
    <2>4. PagingTypeOK
      BY DEF PagingInv, EntriesInv, SpacesInv, PagingTypeOK
    <2>5. StringsTypeOK
      BY DEF StringsInv, KStrings, StringsTypeOK
    <2>6. MessagesTypeOK
      BY DEF MessagesInv, Packets, MessagesTypeOK
    <2>7. UsersTypeOK
      BY DEF UsersInv, UsersTypeOK
    <2>8. TablesTypeOK
      BY DEF TablesInv, TablesTypeOK
    <2> QED
      BY <2>1, <2>2, <2>3, <2>4, <2>5, <2>6, <2>7, <2>8 DEF TypesOK
  <1> HIDE DEF Services
  <1> QED
    BY <1>1, <1>2, <1>3, PTL DEF Spec
=============================================================================
