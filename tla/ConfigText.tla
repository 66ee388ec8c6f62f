----------------------------- MODULE ConfigText -----------------------------
(***************************************************************************)
(* How a configuration is read: JsonCommentReader, which strips comments   *)
(* byte by byte into whatever buffer its caller gives, and override_with,  *)
(* which merges the configs of several files.                              *)
(***************************************************************************)
EXTENDS Integers, Sequences, SequencesExt

CONSTANTS JsonBytes,    \* classes of bytes: "dq" and "bs" are quote, backslash
          JsonLen,      \* bound: length of the text
          JsonRooms,    \* sizes of the buffers read() is given
          CfgTags,      \* tags of detours, with ""
          CfgFiles      \* bound: files merged

VARIABLES jin, jstate, jout, jroom,     \* JsonCommentReader
          mbase, mlast, mfiles          \* merge_configs

jsonVars == <<jin, jstate, jout, jroom>>
mergeVars == <<mbase, mlast, mfiles>>

-----------------------------------------------------------------------------
(* What one byte does in a state: the next state and the bytes to write.   *)
(* In a string the backslash is written when it is met and again with the  *)
(* byte it escapes; Slash is left only by a comment.                       *)
InContent(x) ==
    CASE x = "dq" -> <<"DoubleQuote", <<x>> >>
      [] x = "sq" -> <<"SingleQuote", <<x>> >>
      [] x = "bs" -> <<"Escape", <<>> >>
      [] x = "#"  -> <<"Comment", <<>> >>
      [] x = "/"  -> <<"Slash", <<>> >>
      [] OTHER    -> <<"Content", <<x>> >>

InString(state, quote, x) ==
    CASE x = quote -> <<"Content", <<x>> >>
      [] x = "bs"  -> <<state \o "Escape", <<x>> >>
      [] OTHER     -> <<state, <<x>> >>

InEscape(state, x) == <<state, <<"bs", x>> >>

InComment(x) == IF x = "nl" THEN <<"Content", <<"nl">> >> ELSE <<"Comment", <<>> >>

AfterSlash(x) ==
    CASE x = "/" -> <<"Comment", <<>> >>
      [] x = "*" -> <<"MultilineComment", <<>> >>
      [] OTHER   -> <<"Slash", <<"/", x>> >>

Newline(x) == IF x = "nl" THEN <<"nl">> ELSE <<>>

InBlock(x) ==
    <<IF x = "*" THEN "MultilineCommentStar" ELSE "MultilineComment", Newline(x)>>

BugAfterStar(x) ==
    <<IF x = "/" THEN "Content" ELSE "MultilineComment", Newline(x)>>

AfterStar(x) ==
    <<CASE x = "/" -> "Content"
        [] x \in {"*", "nl"} -> "MultilineCommentStar"
        [] OTHER -> "MultilineComment", Newline(x)>>

StepOn(x) ==
    CASE jstate = "Content"              -> InContent(x)
      [] jstate = "Escape"               -> InEscape("Content", x)
      [] jstate = "DoubleQuote"          -> InString("DoubleQuote", "dq", x)
      [] jstate = "DoubleQuoteEscape"    -> InEscape("DoubleQuote", x)
      [] jstate = "SingleQuote"          -> InString("SingleQuote", "sq", x)
      [] jstate = "SingleQuoteEscape"    -> InEscape("SingleQuote", x)
      [] jstate = "Comment"              -> InComment(x)
      [] jstate = "Slash"                -> AfterSlash(x)
      [] jstate = "MultilineComment"     -> InBlock(x)
      [] jstate = "MultilineCommentStar" -> AfterStar(x)

JsonInit == jin = <<>> /\ jstate = "Content" /\ jout = <<>> /\ jroom = 0

(* read() goes on while its buffer has room; of two bytes the second is    *)
(* dropped when the first one fills it.                                    *)
JsonByte(x) ==
    LET step == StepOn(x)
        w == IF jroom = 1 /\ step[2] # <<>> THEN <<step[2][1]>> ELSE step[2]
    IN  /\ jroom > 0 /\ Len(jin) < JsonLen
        /\ jin' = Append(jin, x) /\ jstate' = step[1]
        /\ jout' = jout \o w /\ jroom' = jroom - Len(w)

JsonRead(n) == jroom = 0 /\ jroom' = n /\ UNCHANGED <<jin, jstate, jout>>

JsonNext == \/ \E x \in JsonBytes : JsonByte(x)
            \/ \E n \in JsonRooms : JsonRead(n)

(* The reference: comments vanish but for their newlines, a string is kept *)
(* as it stands.  What the reader is not checked on comes out as "lone": a *)
(* "/" that starts no comment, an escape outside strings, and in a block a *)
(* "*" before a newline, which the reader takes to the next line with it.  *)
RECURSIVE Stripped(_), Line(_), Block(_), Literal(_)
Stripped(s) ==
    CASE s = <<>> -> <<>>
      [] s[1] = "dq" -> <<"dq">> \o Literal(Tail(s))
      [] s[1] = "#" -> Line(Tail(s))
      [] s[1] = "bs" -> <<"lone">>
      [] s[1] = "/" -> IF Len(s) = 1 THEN <<>>
                       ELSE IF s[2] = "/" THEN Line(SubSeq(s, 3, Len(s)))
                       ELSE IF s[2] = "*" THEN Block(SubSeq(s, 3, Len(s)))
                       ELSE <<"lone">>
      [] OTHER -> <<s[1]>> \o Stripped(Tail(s))
Line(s) == IF s = <<>> THEN <<>>
           ELSE IF s[1] = "nl" THEN Stripped(s) ELSE Line(Tail(s))
Block(s) == IF s = <<>> THEN <<>>
            ELSE IF Len(s) > 1 /\ s[1] = "*" /\ s[2] = "/" THEN Stripped(SubSeq(s, 3, Len(s)))
            ELSE IF Len(s) > 1 /\ s[1] = "*" /\ s[2] = "nl" THEN <<"lone">>
            ELSE Newline(s[1]) \o Block(Tail(s))
Literal(s) == IF s = <<>> THEN <<>>
              ELSE IF s[1] = "dq" THEN <<"dq">> \o Stripped(Tail(s))
              ELSE IF s[1] = "bs" /\ Len(s) > 1 THEN SubSeq(s, 1, 2) \o Literal(SubSeq(s, 3, Len(s)))
              ELSE <<s[1]>> \o Literal(Tail(s))

Told == "lone" \notin ToSet(Stripped(jin))

(* Whatever sizes of buffers the text is read with, comments of all three  *)
(* kinds are stripped, also "/**/" and a quote inside one, their newlines  *)
(* stay, and what looks like a comment inside a string is kept; for texts  *)
(* that escape nothing.                                                    *)
CommentsStripped == Told /\ "bs" \notin ToSet(jin) => jout = Stripped(jin)

(* A string of the text comes out as it went in, its escapes included.     *)
(* Not an invariant: with escapes among JsonBytes the reader loses its     *)
(* place in the string (json_reader.rs:107).                               *)
StringsPreserved == Told => jout = Stripped(jin)

-----------------------------------------------------------------------------
(* A config is its optional part (log, routing, dns, ... alike: 0 is None) *)
(* and its detours: <<tag, file>> for inbounds and for outbounds.          *)
Detours == {s \in UNION {[1 .. n -> CfgTags] : n \in 0 .. 2} :
               \A i, j \in DOMAIN s : i # j => s[i] # s[j]}
FileConfig(part, tags, file) ==
    [part |-> part, ins |-> [i \in DOMAIN tags |-> <<tags[i], file>>],
                    outs |-> [i \in DOMAIN tags |-> <<tags[i], file>>]]

(* position() of the tag, unless it is empty: replaced in place.           *)
Placed(list, d, front) ==
    LET same == {i \in DOMAIN list : list[i][1] = d[1] /\ d[1] # ""}
    IN  IF same # {} THEN [list EXCEPT ![CHOOSE i \in same : \A j \in same : i <= j] = d]
        ELSE IF front THEN <<d>> \o list ELSE Append(list, d)

override_with(other, tail) ==
    [part |-> IF other.part # 0 THEN other.part ELSE mbase.part,
     ins |-> FoldLeft(LAMBDA l, d : Placed(l, d, FALSE), mbase.ins, other.ins),
     outs |-> FoldLeft(LAMBDA l, d : Placed(l, d, ~tail), mbase.outs, other.outs)]

(* The first file is the base.                                             *)
MergeInit == \E tags \in Detours, part \in 0 .. 1 :
    mbase = FileConfig(part, tags, 1) /\ mlast = mbase /\ mfiles = 1

merge_configs == \E tags \in Detours, part \in 0 .. 1, tail \in BOOLEAN :
    /\ mfiles < CfgFiles /\ mfiles' = mfiles + 1
    /\ mlast' = FileConfig(part * mfiles', tags, mfiles')
    /\ mbase' = override_with(mlast', tail)

(* The merged config holds every detour of the file read last, as that     *)
(* file has it, and each tag once, whatever the files before it had.       *)
LastFileWins ==
    /\ ToSet(mlast.outs) \subseteq ToSet(mbase.outs) /\ ToSet(mlast.ins) \subseteq ToSet(mbase.ins)
    /\ mlast.part # 0 => mbase.part = mlast.part
    /\ \A list \in {mbase.ins, mbase.outs} : \A i, j \in DOMAIN list :
          i # j /\ list[i][1] # "" => list[i][1] # list[j][1]

(* Comments and only comments are stripped from the text of a file, and    *)
(* merging files keeps all that the last one says.                         *)
ConfigTextExact == CommentsStripped /\ LastFileWins
=============================================================================
