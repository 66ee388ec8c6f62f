------------------------------ MODULE Freedom ------------------------------
(* The freedom outbound on one TCP connection: choosing the address to    *)
(* dial, the PROXY line, and the relay with its fragmenter, which cuts    *)
(* what it writes into pieces with a pause after each.  A pause is where  *)
(* the other direction can end the relay.                                 *)
EXTENDS Naturals, Sequences, FiniteSetsExt, SequencesExt

CONSTANTS
    FSettings,  \* configurations: see FSettingOK
    FReads      \* what the link yields, one sequence of reads per behaviour

VARIABLES
    fset,       \* the configuration
    freads,     \* reads still to come from the link
    freepc,
    fdialed,    \* the address dialled
    fcur,       \* the read being written: its bytes, and how far it is
    fcount,     \* frag_count
    fsink,      \* what the remote end has received: bytes and record marks
    ftaken      \* bytes taken from the link

freedomVars == <<fset, freads, freepc, fdialed, fcur, fcount, fsink, ftaken>>

(* A configuration: the strategy, the addresses a lookup of the target    *)
(* returns, the redirect, the PROXY line, and the fragmenter (or "off").  *)
FSettingOK(c) == DOMAIN c = {"strategy", "target", "addrs", "redirect", "proxy", "frag"}

(* A read holds bytes and says how many of them are the payload of one    *)
(* complete TLS record: 0 when it does not start with one.                *)
FIdle == [bytes |-> <<>>, record |-> 0, from |-> 0, splits |-> 0, max |-> 0, hello |-> <<>>]
RecordMark == 0
ProxyLine == 1000

FreedomInit ==
    /\ fset \in FSettings /\ freads \in FReads
    /\ freepc = "start" /\ fdialed = <<>>
    /\ fcur = FIdle /\ fcount = 0
    /\ fsink = <<>> /\ ftaken = <<>>

(* resolve_strategy: only a domain is looked up, only under a strategy    *)
(* other than AsIs, and it stays when no address of the family is found.  *)
Wanted(c) == CASE c.strategy = "UseIPv4" -> SelectSeq(c.addrs, LAMBDA a : a.family = 4)
               [] c.strategy = "UseIPv6" -> SelectSeq(c.addrs, LAMBDA a : a.family = 6)
               [] OTHER -> c.addrs
ResolveStrategy(c, target) ==
    IF c.strategy = "AsIs" \/ target.family # 0 \/ Wanted(c) = <<>> THEN target
    ELSE Wanted(c)[1]

FreedomDial ==
    /\ freepc = "start"
    /\ LET target == ResolveStrategy(fset, IF fset.redirect = <<>> THEN fset.target ELSE fset.redirect[1])
       IN  \/ /\ freepc' = "relay" /\ fdialed' = <<target>>
              /\ fsink' = IF fset.proxy THEN <<ProxyLine>> ELSE <<>>
           \/ freepc' = "failed" /\ UNCHANGED <<fdialed, fsink>>
    /\ UNCHANGED <<fset, freads, fcur, fcount, ftaken>>

--------------------------------------------------------------------------
(* The fragmenter.  packets 0-1 means the first TLS hello only; another   *)
(* range means the reads in it, and from 0 all reads.                     *)
Frag == fset.frag
HelloOnly == Frag.from = 0 /\ Frag.to = 1
Cut(r, count) ==
    IF HelloOnly THEN count = 1 /\ r.record > 0
    ELSE Frag.from = 0 \/ count \in Frag.from..Frag.to

(* One read of the link; what is not cut is written at once. *)
FreedomRead ==
    /\ freepc = "relay" /\ freads # <<>>
    /\ freads' = Tail(freads)
    /\ LET r == Head(freads)
       IN  /\ ftaken' = ftaken \o r.bytes
           /\ fcount' = fcount + 1
           /\ IF fset.frag.on /\ Cut(r, fcount + 1)
              THEN \E m \in Frag.split :
                     /\ fcur' = [FIdle EXCEPT !.bytes = r.bytes, !.record = r.record, !.max = m]
                     /\ freepc' = "cut" /\ fsink' = fsink
              ELSE fsink' = fsink \o r.bytes /\ UNCHANGED <<fcur, freepc>>
    /\ UNCHANGED <<fset, fdialed>>

(* The bytes being cut: a record's payload, or the whole read. *)
CutEnd == IF HelloOnly THEN fcur.record ELSE Len(fcur.bytes)
Piece(from, to) ==
    (IF HelloOnly THEN <<RecordMark>> ELSE <<>>) \o SubSeq(fcur.bytes, from + 1, to)

(* The last permitted piece takes all that is left. *)
PieceEnd(len) ==
    IF fcur.max > 0 /\ fcur.splits + 1 >= fcur.max THEN CutEnd
    ELSE Min({fcur.from + len, CutEnd})

(* Without an interval the records of a hello are gathered and written    *)
(* together.                                                              *)
FreedomFragment ==
    /\ freepc = "cut" /\ fcur.from < CutEnd
    /\ \E len \in Frag.length :
         LET to == PieceEnd(len)
             piece == Piece(fcur.from, to)
             gather == HelloOnly /\ ~Frag.interval
         IN  /\ fcur' = [fcur EXCEPT !.from = to, !.splits = @ + 1,
                                     !.hello = IF gather THEN @ \o piece ELSE @]
             /\ fsink' = IF gather THEN fsink ELSE fsink \o piece
    /\ UNCHANGED <<fset, freads, freepc, fdialed, fcount, ftaken>>

(* After the last piece: the gathered records, then what followed the     *)
(* record in the same read.                                               *)
BugFreedomRest ==
    /\ freepc = "cut" /\ fcur.from = CutEnd
    /\ fsink' = fsink \o fcur.hello
    /\ freepc' = "relay" /\ fcur' = FIdle
    /\ UNCHANGED <<fset, freads, fdialed, fcount, ftaken>>

FreedomRest ==
    /\ freepc = "cut" /\ fcur.from = CutEnd
    /\ fsink' = fsink \o fcur.hello \o SubSeq(fcur.bytes, CutEnd + 1, Len(fcur.bytes))
    /\ freepc' = "relay" /\ fcur' = FIdle
    /\ UNCHANGED <<fset, freads, fdialed, fcount, ftaken>>

(* The link ends; or the other direction ends, at any await of this one. *)
FreedomLinkEnds ==
    /\ freepc = "relay" /\ freads = <<>>
    /\ freepc' = "ended"
    /\ UNCHANGED <<fset, freads, fdialed, fcur, fcount, fsink, ftaken>>
FreedomOtherEnds ==
    /\ freepc \in {"relay", "cut"}
    /\ freepc' = "cancelled"
    /\ UNCHANGED <<fset, freads, fdialed, fcur, fcount, fsink, ftaken>>

FreedomSteps == FreedomDial \/ FreedomRead \/ FreedomFragment \/ FreedomRest \/ FreedomLinkEnds
FreedomNext == FreedomSteps \/ FreedomOtherEnds
=============================================================================
