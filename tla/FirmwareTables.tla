--------------------------- MODULE FirmwareTables ---------------------------
(***************************************************************************)
(* The tables the firmware leaves: ACPIFactoryInterface::Find over the     *)
(* XSDT (src/ACPIFactoryInterface.cc) and mp_get_cores over the MADT       *)
(* (HALKit/AMD64/HalCoreScheduler.cc).  Lengths are scaled: a header of    *)
(* Header bytes, entries of Entry bytes, sizes that wrap at Wide.          *)
(***************************************************************************)
EXTENDS Integers, Sequences, FiniteSets, FiniteSetsExt

CONSTANTS
    Header, Entry, Wide,   \* sizeof(SDT), sizeof(Int64), and 2^64 scaled down
    MaxLength,             \* lengths the XSDT may claim
    cSMPMax,               \* entries of kAPICLocales
    Records                \* records in memory from the MADT on
ASSUME TableSizes == /\ Header \in Nat \ {0} /\ Entry \in Nat \ {0}
                     /\ MaxLength \in Nat /\ Wide \in Nat /\ Wide > MaxLength
                     /\ cSMPMax \in Nat \ {0} /\ Records \in Nat \ {0}

Signatures == {"APIC", "HPET", "FACP"}

VARIABLES
    xsdt,      \* its length and the signatures of the tables it lists
    found,     \* what Find returned: a table, nothing, or the kernel stopped
    entries,   \* fEntries
    smp        \* the types mp_get_cores read, what came of it, kSMPCount and the
               \* indices of kAPICLocales it stored to

tableVars == <<xsdt, found, entries, smp>>

\* Types of records, the last one above 9.  Read as records of one size, which
\* those of a MADT do not have, a table ends where memory first holds such a type.
Madts == UNION {{Append(t, 10) : t \in [1 .. n -> {0, 1, 5}]} : n \in 0 .. Records}

TablesInit ==
    /\ \E len \in 0 .. MaxLength, n \in 1 .. 2 :
         \E s \in [1 .. n -> Signatures] : xsdt = [length |-> len, tables |-> s]
    /\ found = [is |-> "none", at |-> 0] /\ entries = 0
    /\ smp = [end |-> "none", types |-> <<>>, count |-> 0, locales |-> {}]
-----------------------------------------------------------------------------

Count(len) == ((len - Header) % Wide) \div Entry

\* Find("APIC"): the first table of that signature among the entries; those
\* past the ones modelled have none of the signatures asked for.
Hits(n) == {i \in 1 .. Len(xsdt.tables) : i <= n /\ xsdt.tables[i] = "APIC"}

FirstHit(hits) == Min(hits)

Find ==
    /\ found.is = "none"
    /\ LET n == Count(xsdt.length) IN
       IF n < 1 THEN found' = [found EXCEPT !.is = "stopped"] /\ UNCHANGED entries
       ELSE /\ entries' = n
            /\ found' = IF Hits(n) = {} THEN [is |-> "missing", at |-> 0]
                       ELSE [is |-> "found", at |-> FirstHit(Hits(n))]
    /\ UNCHANGED <<xsdt, smp>>

\* The records mp_get_cores looks at: it stops at a type above 9 or when the
\* count has passed cSMPMax, and knows nothing of the length of the table.
Lapics(m, i) == {j \in 1 .. i : m[j] = 0}
StopsLate(m, i) == m[i] > 9

Stops(m, i) == m[i] > 9 \/ Cardinality(Lapics(m, i - 1)) > cSMPMax
Walked(m) == 1 .. Min({i \in 1 .. Len(m) : Stops(m, i)}) - 1

\* The loop over the memory that reads as m.
Cores(m) ==
    LET stored == {i - 1 : i \in {j \in Walked(m) : m[j] = 0}}
    IN  [end |-> "aware", types |-> m, count |-> Cardinality(stored), locales |-> stored]

\* Find(..).Leak().Leak() reads the address of a parameter that is gone
\* (NewKit/Ref.h), and address 0 when nothing was found: the table, or a word
\* that is null, points nowhere, or to any other memory.  So it is any memory
\* that is read as records.
mp_get_cores ==
    /\ found.is \in {"found", "missing"} /\ smp.end = "none"
    /\ smp' \in {[smp EXCEPT !.end = e] : e \in {"alone", "fault"}} \cup {Cores(m) : m \in Madts}
    /\ UNCHANGED <<xsdt, found, entries>>

TablesNext == Find \/ mp_get_cores
-----------------------------------------------------------------------------
TablesTypeOK ==
    /\ found.is \in {"none", "stopped", "missing", "found"}
    /\ entries \in 0 .. Wide /\ smp.end \in {"none", "alone", "fault", "aware"}

\* Find (ACPIFactoryInterface.cc:53) looks at no entry beyond the length of the
\* table, when the table is as long as its own header; a table that is exactly
\* its header stops the kernel.
EntriesInside ==
    xsdt.length >= Header /\ entries > 0 => entries * Entry + Header <= xsdt.length

\* It is the first table of the signature that is found, and none is found
\* that lies behind the end.
FirstFound ==
    found.is = "found" => /\ xsdt.tables[found.at] = "APIC" /\ found.at <= entries
                          /\ \A j \in 1 .. found.at - 1 : xsdt.tables[j] # "APIC"

\* What mp_get_cores stores (HalCoreScheduler.cc:213): the count passes the size
\* of kAPICLocales by one at most, but the index counts every record.  It leaves
\* the array as soon as a Local APIC stands behind more records than the array
\* has entries, no type above 9 comes before it, and no more Local APICs than
\* entries do; and never otherwise.
LocalesInside ==
    smp.end = "aware" =>
        /\ smp.count = Cardinality(smp.locales) /\ smp.count <= cSMPMax + 1
        /\ smp.locales \subseteq 0 .. cSMPMax - 1 <=>
             ~\E i \in cSMPMax + 1 .. Len(smp.types) :
                 /\ smp.types[i] = 0 /\ \A j \in 1 .. i : smp.types[j] <= 9
                 /\ Cardinality({j \in 1 .. i - 1 : smp.types[j] = 0}) <= cSMPMax

=============================================================================
