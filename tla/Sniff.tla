------------------------------- MODULE Sniff -------------------------------
(***************************************************************************)
(* Protocol detection (astra-core-sniffing): what sniff makes of the first *)
(* read of a connection, and which fallback the Trojan inbound hands a     *)
(* connection to that does not begin with a Trojan header.  A flight is    *)
(* the first message of a client: the bytes the tests look at, the lengths *)
(* of its fields, and its name.  The first read holds some prefix of it.   *)
(***************************************************************************)
EXTENDS Integers, Sequences, FiniteSets, SequencesExt

CONSTANTS SniffFlights,   \* the first messages clients send
          SniffReads,     \* the lengths a first read may have
          Fallbacks       \* the Trojan inbound's fallbacks, in order

VARIABLES flight,    \* the message
          nread,     \* how many of its bytes the first read returned
          sniffed,   \* the SniffResult, or the pair of empty strings
          fallback   \* the index of the fallback chosen, 0 for none

sniffVars == <<flight, nread, sniffed, fallback>>

SniffName == "name"
NoDomain == ""
CutName == "na"

(* the messages, with the total length of each and its first six bytes     *)
HelloLen(h) ==
    43 + 1 + h.session + 2 + h.ciphers + 1 + h.comp + 2
       + FoldLeft(LAMBDA n, e : n + 4 + e.len, 0, h.exts)

SniLen(name) == 2 + 3 + name
TlsHello(session, ciphers, exts, name) ==
    LET h == [session |-> session, ciphers |-> ciphers, comp |-> 1, exts |-> exts, name |-> name]
        record == HelloLen(h) - 5
    IN  [kind |-> "tls", hello |-> h, len |-> HelloLen(h), lines |-> << >>,
         head |-> <<22, 3, 1, record \div 256, record % 256, 1>>]

Plaintext(kind, head, len, lines) ==
    [kind |-> kind, hello |-> << >>, len |-> len, lines |-> lines, head |-> head]

-----------------------------------------------------------------------------
IsBitTorrent(f, n) == n >= 20 /\ f.kind = "bittorrent"

BugIsDns(f, n) == n >= 12 /\ f.head[3] \div 8 = 0

(* qr and opcode are zero, and between 1 and 10 questions                  *)
IsDns(f, n) ==
    /\ n >= 12
    /\ f.head[3] \div 8 = 0
    /\ f.head[5] * 256 + f.head[6] \in 1 .. 10

(* the flights of kind http begin with one of the nine methods             *)
IsHttp(f, n) == n >= 4 /\ f.kind = "http"

IsTls(f, n) ==
    /\ n >= 6
    /\ f.head[1] = 22
    /\ f.head[2] * 256 + f.head[3] \in 769 .. 772

(* the lines the read reached: a "Host:" line names the host, cut where    *)
(* the read ended; an empty value is passed over, an empty line ends it    *)
sniff_http_host(f, n) ==
    LET lines == SelectSeq(f.lines, LAMBDA l : l.start < n)
        hosts == {i \in DOMAIN lines : lines[i].is = "Host" /\ lines[i].value < n}
        stops == {i \in DOMAIN lines : lines[i].is = "empty"}
        first == CHOOSE i \in hosts : \A j \in hosts : i <= j
    IN  IF hosts = {} \/ (\E j \in stops : j < first) THEN NoDomain
        ELSE IF lines[first].end <= n THEN SniffName ELSE CutName

(* the walk over the extensions from pos; an SNI extension settles it      *)
RECURSIVE SniIn(_, _, _, _)
SniIn(h, exts, pos, n) ==
    IF exts = << >> \/ pos + 4 > n THEN NoDomain
    ELSE IF Head(exts).type = 0
    THEN IF pos + 4 + 5 <= n /\ pos + 9 + h.name <= n THEN SniffName ELSE NoDomain
    ELSE SniIn(h, Tail(exts), pos + 4 + Head(exts).len, n)

(* the fields before the extensions are skipped by their lengths           *)
sniff_tls_sni(f, n) ==
    LET h == f.hello
        ciphers == 43 + 1 + h.session
        comp == ciphers + 2 + h.ciphers
        exts == comp + 1 + h.comp
    IN  IF /\ n >= 44 /\ f.head[6] = 1
           /\ ciphers + 1 < n /\ comp < n /\ exts + 1 < n
        THEN SniIn(h, h.exts, exts + 2, n)
        ELSE NoDomain

(* the tests in the order the code makes them; each needs its own length   *)
sniff(f, n) ==
    IF IsBitTorrent(f, n) THEN <<"bittorrent", NoDomain>>
    ELSE IF IsDns(f, n) THEN <<"dns", NoDomain>>
    ELSE IF IsHttp(f, n) THEN <<"http", sniff_http_host(f, n)>>
    ELSE IF IsTls(f, n) THEN <<"tls", sniff_tls_sni(f, n)>>
    ELSE <<"", NoDomain>>

-----------------------------------------------------------------------------
(* Trojan's own walk gives up unless the read reaches the end of the       *)
(* extensions.  No name in them is malformed here, so the first SNI        *)
(* extension settles it.                                                   *)
extract_sni_from_client_hello(f, n) ==
    IF n < 50 \/ f.head[1] # 22 \/ n < f.len THEN NoDomain
    ELSE IF \E i \in DOMAIN f.hello.exts : f.hello.exts[i].type = 0 THEN SniffName ELSE NoDomain

(* the first Host line in any spelling, cut where the read ended; before   *)
(* one is reached, the path of a GET or POST line.  Other flights are not  *)
(* text.                                                                   *)
extract_http_path(f, n) ==
    LET hosts == {i \in DOMAIN f.lines : f.lines[i].is \in {"Host", "host"} /\ f.lines[i].value <= n}
        first == f.lines[CHOOSE i \in hosts : \A j \in hosts : i <= j]
    IN  IF f.kind # "http" THEN NoDomain
        ELSE IF hosts # {} THEN IF first.end <= n THEN SniffName
                                ELSE IF first.value < n THEN CutName ELSE NoDomain
        ELSE IF n > 5 THEN "path" ELSE NoDomain

(* the first that asks for nothing the message lacks.  A path is asked for *)
(* as a part of the message's; here parts are whole.                       *)
match_fallback(sni, alpn, path) ==
    LET fits == {i \in DOMAIN Fallbacks : /\ Fallbacks[i].name \in {"", sni}
                                          /\ Fallbacks[i].alpn \in {"", alpn}
                                          /\ Fallbacks[i].path \in {"", path}}
    IN  IF fits = {} THEN 0 ELSE CHOOSE i \in fits : \A j \in fits : i <= j

SniffInit ==
    /\ flight \in SniffFlights
    /\ nread \in {n \in SniffReads : n <= flight.len} \cup {flight.len}
    /\ sniffed = << >> /\ fallback = 0

SniffFirst ==
    /\ sniffed = << >> /\ fallback = 0
    /\ sniffed' = sniff(flight, nread)
    /\ UNCHANGED <<flight, nread, fallback>>

(* None of the flights looks like a Trojan header; the ALPN is never       *)
(* known, and a read of nothing ends the connection.                       *)
TrojanFirst ==
    /\ sniffed = << >> /\ fallback = 0 /\ nread > 0
    /\ fallback' = match_fallback(extract_sni_from_client_hello(flight, nread), "",
                                  extract_http_path(flight, nread))
    /\ UNCHANGED <<flight, nread, sniffed>>

SniffNext == SniffFirst \/ TrojanFirst

-----------------------------------------------------------------------------
Named(f) ==
    \/ f.kind = "tls" /\ \E i \in DOMAIN f.hello.exts : f.hello.exts[i].type = 0
    \/ f.kind = "http" /\ \E i \in DOMAIN f.lines : f.lines[i].is = "Host"

LooksLikeDns == flight.kind = "tls" /\ flight.head[5] = 0

(* When the first read holds the whole message, sniff finds its protocol   *)
(* and, where it has one, its name, wherever in the message that stands; a *)
(* message cut anywhere is never taken for another protocol's, and a cut   *)
(* ClientHello yields the server's name or none, never a part of it.       *)
(* ClientHellos whose record length is a multiple of 256 are left to       *)
(* TlsIsSniffed.                                                           *)
SniffFindsName ==
    (sniffed # << >> /\ ~LooksLikeDns) =>
        /\ sniffed[1] \in {flight.kind, ""}
        /\ sniffed[2] = CutName => flight.kind = "http" /\ nread < flight.len
        /\ nread = flight.len =>
              /\ sniffed[1] = flight.kind
              /\ (sniffed[2] = SniffName) <=> Named(flight)

Asks(i) == Fallbacks[i].name # "" \/ Fallbacks[i].path # ""

(* A connection goes to a fallback that asks for a name, or for a host,    *)
(* only if its first message carries it, and goes there whenever the first *)
(* read held the whole message; no fallback for an ALPN is ever chosen.    *)
FallbackIsNamed ==
    fallback # 0 =>
        /\ Fallbacks[fallback].name # "" => flight.kind = "tls" /\ Named(flight)
        /\ Fallbacks[fallback].path # "" => flight.kind = "http"
        /\ Fallbacks[fallback].alpn = ""
        /\ nread = flight.len /\ flight.kind = "http" => Fallbacks[fallback].path = SniffName
        /\ nread = flight.len /\ flight.kind = "tls" /\ Named(flight) => Asks(fallback)

(* A whole TLS ClientHello is sniffed as TLS.  Not an invariant: one with  *)
(* a length that is a multiple of 256 passes for DNS (lib.rs:103).         *)
TlsIsSniffed ==
    (sniffed # << >> /\ flight.kind = "tls" /\ nread = flight.len) => sniffed[1] = "tls"
=============================================================================
