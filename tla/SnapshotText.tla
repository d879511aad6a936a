---------------------------- MODULE SnapshotText ----------------------------
(***************************************************************************)
(* The scan for a repeated subscription id in the text of a snapshot       *)
(* (firstDuplicateTopLevelKey in lib/transport/HttpPdpClient.ts), which    *)
(* comes before JSON.parse, because that lets the last of them win.        *)
(*                                                                         *)
(* A text is a sequence of JSON tokens.  A snapshot is a sequence of       *)
(* members: an id, how it is spelled (plainly, or with an escape), and a   *)
(* decision, whose text has objects, arrays and the same keys again.  The  *)
(* signs are named: { and } are "brace" and "unbrace", [ and ] "bracket"   *)
(* and "unbracket".                                                        *)
(***************************************************************************)
EXTENDS Naturals, Sequences, SequencesExt, FiniteSetsExt

Mark(sign)            == [sign |-> sign]
String(key, spelling) == [sign |-> "string", key |-> key, spelling |-> spelling]

DecisionText(id) ==
    << Mark("brace"), String(id, "plain"), Mark("colon"),
          Mark("bracket"), Mark("brace"), Mark("unbrace"), Mark("unbracket"), Mark("comma"),
       String(id, "plain"), Mark("colon"), Mark("brace"), Mark("unbrace"), Mark("unbrace") >>

MemberText(member) ==
    << String(member.id, member.spelling), Mark("colon") >> \o DecisionText(member.id)

Text(snapshot) ==
    << Mark("brace") >>
    \o FlattenSeq([i \in DOMAIN snapshot |->
          (IF i = 1 THEN << >> ELSE << Mark("comma") >>) \o MemberText(snapshot[i])])
    \o << Mark("unbrace") >>

-----------------------------------------------------------------------------
Closing(sign) == IF sign = "brace" THEN "unbrace" ELSE "unbracket"

(* Deliberately wrong: a value ends with the first bracket that closes.    *)
SkipToFirstClose(text, i) ==
    IF text[i].sign \in {"brace", "bracket"}
    THEN 1 + Min({ j \in i .. Len(text) : text[j].sign = Closing(text[i].sign) })
    ELSE i + 1

(* The index past the value at i: only brackets of its own kind count, and *)
(* a string is one token, whatever is in it.                               *)
SkipJsonValue(text, i) ==
    LET Count(sign, j) == Quantify(i .. j, LAMBDA k : text[k].sign = sign)
        open == text[i].sign
    IN  IF open \in {"brace", "bracket"}
        THEN 1 + Min({ j \in i .. Len(text) : Count(open, j) = Count(Closing(open), j) })
        ELSE i + 1

(* One pass of the loop over the keys: every pass moves on, past a comma,  *)
(* past a key and its value, or, at anything else, to the end.             *)
ReadKey(text, scan) ==
    IF scan.at > Len(text) THEN scan
    ELSE IF text[scan.at].sign = "comma" THEN [scan EXCEPT !.at = @ + 1]
    ELSE IF text[scan.at].sign # "string" THEN [scan EXCEPT !.at = Len(text) + 1]
    ELSE [at   |-> IF text[scan.at + 1].sign = "colon"
                   THEN SkipJsonValue(text, scan.at + 2) ELSE Len(text) + 1,
          keys |-> Append(scan.keys, text[scan.at])]

TopLevelKeys(text) ==
    LET scan[n \in 0 .. Len(text)] ==
            IF n = 0 THEN [at |-> 2, keys |-> << >>] ELSE ReadKey(text, scan[n - 1])
    IN  IF text[1].sign = "brace" THEN scan[Len(text)].keys ELSE << >>

RepeatsAKey(text) ==
    LET keys == TopLevelKeys(text)
    IN  \E i, j \in DOMAIN keys : i # j /\ keys[i] = keys[j]

(* JSON.parse: ids to decisions, the last one wins.                        *)
Parsed(snapshot) ==
    [id \in { snapshot[i].id : i \in DOMAIN snapshot } |->
        snapshot[Max({ i \in DOMAIN snapshot : snapshot[i].id = id })].decision]

=============================================================================
