------------------------------ MODULE MCAdapter ------------------------------
(* Responses of up to four events, well formed or not, cut anywhere.       *)
EXTENDS Adapter, TLC

TwoTexts == {"data: one", "data: two"}
Line(l) == <<l, NL, NL>>
Event(e, d) == <<e, NL, d, NL, NL>>

\* Events of both formats, one with too many lines, and a stray newline.
Ends == {Line(DoneLine), Event(StopLine, OtherData)}
Others ==
  {Line(l) : l \in TwoTexts \cup {OtherData}}
    \cup {Event(DeltaLine, d) : d \in TwoTexts}
    \cup {Event("data: one", "data: two"), <<NL>>}

Sequences(parts, n) ==
  {FlattenSeq(s) : s \in UNION {[1 .. k -> parts] : k \in 0 .. n}}

\* Responses without text after the end.
TidyStreams ==
  {a \o b \o c : a \in Sequences(Others, 2), b \in Ends,
                 c \in {<<NL>>, <<NL, NL>>, Line(OtherData)}}

ASSUME TidyAssumption == NoTextAfterEnd
=============================================================================
