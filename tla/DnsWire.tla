------------------------------ MODULE DnsWire ------------------------------
(***************************************************************************)
(* The wire format of the resolvers (astra-core-dns): the query with its   *)
(* EDNS0 options, the names with their compression pointers, and the       *)
(* parser of the response.  A message is a sequence of bytes; the server   *)
(* that answers is the environment.  A label is a sequence of bytes, a     *)
(* name a sequence of labels.                                              *)
(***************************************************************************)
EXTENDS Integers, Sequences, SequencesExt

CONSTANTS WireNames,      \* the names asked for
          WireAsks,       \* what is asked: [qtype, ip, padding], where the
                          \* address << >> and the padding 0 are None
          WireTtls,       \* the times to live a server gives
          WireMaxAnswers  \* the most records in an answer

VARIABLES wname,     \* the name asked for
          wquery,    \* the bytes of the query
          wrecords,  \* what the server answers with, in order
          wdata,     \* the bytes of the response that arrived
          wresult    \* what parse_dns_response returned

wireVars == <<wname, wquery, wrecords, wdata, wresult>>

QTYPE_A == 1
QTYPE_CNAME == 5
QTYPE_AAAA == 28
DNS_HEADER_SIZE == 12
DEFAULT_TTL == 300

(* data[pos] and the big-endian integers, with offsets from 0              *)
ByteAt(data, pos) == data[pos + 1]
U16At(data, pos) == ByteAt(data, pos) * 256 + ByteAt(data, pos + 1)
U32At(data, pos) == U16At(data, pos) * 65536 + U16At(data, pos + 2)
U16(n) == <<n \div 256, n % 256>>
U32(n) == U16(n \div 65536) \o U16(n % 65536)
Zeros(n) == [i \in 1 .. n |-> 0]

-----------------------------------------------------------------------------
(* Names.                                                                  *)

encode_domain_name(name) ==
    FlattenSeq([i \in DOMAIN name |->
                   LET label == SubSeq(name[i], 1, Min({Len(name[i]), 63}))
                   IN  <<Len(label)>> \o label]) \o <<0>>

NameError == [ok |-> FALSE, name |-> << >>, end |-> 0]

BugNameEnd(pos, jump) == pos

(* where the caller reads on: after the first pointer, if one was followed *)
NameEnd(pos, jump) == IF jump > 0 THEN jump ELSE pos

(* the loop of decode_domain_name; jump is 0 until a pointer is followed   *)
RECURSIVE NameFrom(_, _, _, _)
NameFrom(data, pos, labels, jump) ==
    IF pos >= Len(data) THEN NameError
    ELSE LET len == ByteAt(data, pos)
         IN  CASE len = 0 ->
                    [ok |-> TRUE, name |-> labels, end |-> NameEnd(pos + 1, jump)]
               [] len >= 192 ->
                    IF pos + 1 >= Len(data) THEN NameError
                    ELSE NameFrom(data, (len - 192) * 256 + ByteAt(data, pos + 1), labels,
                                  IF jump > 0 THEN jump ELSE pos + 2)
               [] OTHER ->
                    IF pos + 1 + len > Len(data) THEN NameError
                    ELSE NameFrom(data, pos + 1 + len,
                                  Append(labels, SubSeq(data, pos + 2, pos + 1 + len)), jump)

decode_domain_name(data, offset) == NameFrom(data, offset, << >>, 0)

-----------------------------------------------------------------------------
(* The query.                                                              *)

(* 24 bits of an IPv4 address, 96 of an IPv6 one                           *)
build_edns0_subnet_option(ip) ==
    LET family == IF Len(ip) = 4 THEN 1 ELSE 2
        netmask == IF Len(ip) = 4 THEN 24 ELSE 96
    IN  IF ip = << >> THEN << >>
        ELSE U16(8) \o U16(4 + Len(ip)) \o U16(family) \o <<netmask, 0>>
                \o SubSeq(ip, 1, netmask \div 8)

build_edns0_padding_option(len) == U16(12) \o U16(len) \o Zeros(len)

build_dns_query_with_edns(name, qtype, ip, padding) ==
    LET options == build_edns0_subnet_option(ip)
                      \o IF padding > 0 THEN build_edns0_padding_option(padding) ELSE << >>
    IN  <<7, 7, 1, 0>> \o U16(1) \o U16(0) \o U16(0) \o U16(1)
          \o encode_domain_name(name) \o U16(qtype) \o U16(1)
          \o <<0>> \o U16(41) \o U16(1350) \o <<0, 0, 128, 0>>
          \o U16(Len(options)) \o options

-----------------------------------------------------------------------------
(* The response.                                                           *)

Network == [ok |-> FALSE, why |-> "network", ips |-> << >>, ttl |-> 0]
RCode == [Network EXCEPT !.why = "rcode"]
EmptyResponse == [Network EXCEPT !.why = "empty"]

(* the questions are skipped: 0 stands for a name that could not be read   *)
RECURSIVE SkipQuestions(_, _, _)
SkipQuestions(data, pos, n) ==
    IF n = 0 THEN pos
    ELSE LET d == decode_domain_name(data, pos)
         IN  IF d.ok THEN SkipQuestions(data, d.end + 4, n - 1) ELSE 0

IsAddress(rtype, rdlength) ==
    \/ rtype = QTYPE_A /\ rdlength = 4
    \/ rtype = QTYPE_AAAA /\ rdlength = 16

RECURSIVE ReadAnswers(_, _, _, _, _)
ReadAnswers(data, start, n, ips, min_ttl) ==
    IF n = 0
    THEN IF ips = << >> THEN EmptyResponse
         ELSE [ok |-> TRUE, why |-> "", ips |-> ips, ttl |-> min_ttl]
    ELSE LET d == decode_domain_name(data, start)
             pos == d.end + 10
             rdlength == U16At(data, d.end + 8)
         IN  IF \/ ~d.ok
                \/ pos > Len(data)
                \/ pos + rdlength > Len(data)
             THEN Network
             ELSE IF IsAddress(U16At(data, d.end), rdlength)
             THEN ReadAnswers(data, pos + rdlength, n - 1,
                              Append(ips, SubSeq(data, pos + 1, pos + rdlength)),
                              Min({min_ttl, U32At(data, d.end + 4)}))
             ELSE ReadAnswers(data, pos + rdlength, n - 1, ips, min_ttl)

parse_dns_response(data) ==
    LET flags == U16At(data, 2)
        answers == SkipQuestions(data, DNS_HEADER_SIZE, U16At(data, 4))
    IN  CASE Len(data) < DNS_HEADER_SIZE -> Network
          [] flags < 32768 -> Network
          [] flags % 16 # 0 -> RCode
          [] answers = 0 -> Network
          [] OTHER -> ReadAnswers(data, answers, U16At(data, 6), << >>, DEFAULT_TTL)

-----------------------------------------------------------------------------
(* The server: it repeats the question, and names the owner of a record in *)
(* full, by a pointer to the question, or by a label and a pointer.        *)

RData(r) ==
    CASE r.type = QTYPE_A -> <<10, 0, 0, 1>>
      [] r.type = QTYPE_AAAA -> <<32, 1>> \o Zeros(13) \o <<1>>
      [] r.type = QTYPE_CNAME -> <<1, 119, 192, DNS_HEADER_SIZE>>

Owner(r, name) ==
    CASE r.owner = "full" -> encode_domain_name(name)
      [] r.owner = "pointer" -> <<192, DNS_HEADER_SIZE>>
      [] r.owner = "label" -> <<1, 119, 192, DNS_HEADER_SIZE>>

WireAnswer(query, name, records, rcode) ==
    LET question == SubSeq(query, DNS_HEADER_SIZE + 1,
                           decode_domain_name(query, DNS_HEADER_SIZE).end + 4)
        record(r) == Owner(r, name) \o U16(r.type) \o U16(1) \o U32(r.ttl)
                        \o U16(Len(RData(r))) \o RData(r)
    IN  SubSeq(query, 1, 2) \o <<129, 128 + rcode>> \o U16(1) \o U16(Len(records))
          \o U16(0) \o U16(0) \o question
          \o FlattenSeq([i \in DOMAIN records |-> record(records[i])])

WireRecords == [type : {QTYPE_A, QTYPE_AAAA, QTYPE_CNAME},
                owner : {"full", "pointer", "label"}, ttl : WireTtls]

WireInit ==
    /\ wname \in WireNames
    /\ \E a \in WireAsks :
          wquery = build_dns_query_with_edns(wname, a.qtype, a.ip, a.padding)
    /\ wrecords = << >>
    /\ wdata = << >>
    /\ wresult = [Network EXCEPT !.why = "none"]

(* a response arrives, whole or cut                                        *)
Respond ==
    /\ wdata = << >>
    /\ \E n \in 0 .. WireMaxAnswers : wrecords' \in [1 .. n -> WireRecords]
    /\ \E rcode \in {0, 3} :
          LET whole == WireAnswer(wquery, wname, wrecords', rcode)
          IN  \E cut \in {0, 1, 5, 11, Len(whole) - 14, Len(whole) - 5} :
                 wdata' = SubSeq(whole, 1, Len(whole) - cut)
    /\ UNCHANGED <<wname, wquery, wresult>>

Parse ==
    /\ wdata # << >>
    /\ wresult.why = "none"
    /\ wresult' = parse_dns_response(wdata)
    /\ UNCHANGED <<wname, wquery, wrecords, wdata>>

WireNext == Respond \/ Parse

-----------------------------------------------------------------------------
AddressRecords == SelectSeq(wrecords, LAMBDA r : r.type # QTYPE_CNAME)

(* A query reads back as the name and type asked for, and the length of    *)
(* its OPT record covers exactly the bytes that follow it.                 *)
QueryReadsBack ==
    LET d == decode_domain_name(wquery, DNS_HEADER_SIZE)
    IN  /\ d.ok /\ d.name = wname
        /\ U16At(wquery, d.end) \in {QTYPE_A, QTYPE_AAAA}
        /\ d.end + 15 + U16At(wquery, d.end + 13) = Len(wquery)

(* parse_dns_response returns the addresses of the A and AAAA records in   *)
(* the order sent, with the smallest time to live and at most 300 seconds, *)
(* however the owner names are compressed and whatever lies between them;  *)
(* a response cut anywhere gives an error, never a shorter answer.         *)
AnswersReadWhole ==
    LET ttls == {AddressRecords[i].ttl : i \in DOMAIN AddressRecords}
        whole == WireAnswer(wquery, wname, wrecords, 0)
    IN  CASE wresult.why = "none" -> TRUE
          [] wdata # whole -> ~wresult.ok
          [] AddressRecords = << >> -> wresult = EmptyResponse
          [] OTHER ->
               /\ wresult.ips = [i \in DOMAIN AddressRecords |-> RData(AddressRecords[i])]
               /\ wresult.ttl = Min(ttls \cup {DEFAULT_TTL})

(* The messages of the resolvers are exact both ways: the query says what  *)
(* was asked, and the answer read is the answer sent or an error.          *)
DnsWireExact == QueryReadsBack /\ AnswersReadWhole
=============================================================================
