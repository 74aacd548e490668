---------------------------- MODULE MCCertText ----------------------------
(***************************************************************************)
(* Instances of CertText for TLC.                                          *)
(***************************************************************************)
EXTENDS CertText

SomeWords ==
  {"CERTIFICATE", "TRUSTED", "a", "b", "c", "d", "e", "x", "y", "z", "# Issuer"}
Plain == <<"CERTIFICATE">>
Trusted == <<"TRUSTED", " ", "CERTIFICATE">>

\* Bodies from none to more than two lines.
Bodies == {SubSeq(<<"a", "b", "c", "d", "e">>, 1, n) : n \in 0..5}
BlockChoices == [label : {Plain, Trusted}, body : Bodies]
SomeCertificates ==
  {<<b>> : b \in BlockChoices}
    \union {<<b, c>> : b \in BlockChoices, c \in [label : {Plain}, body : {<<"x">>, <<"x", "y", "z">>}]}
    \union {<<b, b, b>> : b \in [label : {Trusted}, body : {<<"a", "b">>}]}
SomeWidths == {1, 2, 3}
NoteLine == <<"# Issuer">>

Files == {File(blocks, width) : blocks \in SomeCertificates, width \in SomeWidths}
Comments ==
  UNION {{OneLine(Commented(blocks, at)) : at \in DOMAIN blocks} : blocks \in SomeCertificates}
Lines == {OneLine(f) : f \in Files} \union Comments

\* Lines that break off and are begun again.
ShortLines == {OneLine(File(<<b>>, 1)) : b \in [label : {Plain}, body : {<< >>, <<"a">>}]}
Restarted ==
  {SubSeq(l, 1, m) \o <<" ">> \o SubSeq(l, 1, n) :
     l \in ShortLines, m \in 1..12, n \in 1..12}

\* Whole files on one line or not, and lines that break off, have lost their first
\* tokens or have a gap.
AllTexts ==
  Files \union Lines \union Restarted
    \union UNION {{SubSeq(l, 1, n) : n \in 1..Len(l)} : l \in Lines}
    \union UNION {{SubSeq(l, n, Len(l)) : n \in 1..Len(l)} : l \in Lines}
    \union UNION {{RemoveAt(l, n) : n \in 1..Len(l)} : l \in Lines}
=============================================================================
