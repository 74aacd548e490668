------------------------------ MODULE CertText ------------------------------
(***************************************************************************)
(* normalizePEMCert: the text of the certificates for the trusted roots.   *)
(* The Omni UI may give them on one line, with spaces for the newlines.    *)
(* The blocks are taken off the front of the text, one per turn of the     *)
(* loop.  The result is normalized once more, to say that twice is once.   *)
(*                                                                         *)
(* Text is a sequence of tokens: dashes, BEGIN, END, a space, a newline,   *)
(* and any other for a piece of a label or of a base64 body.               *)
(***************************************************************************)
EXTENDS Naturals, Sequences, SequencesExt

CONSTANTS
  Words,         \* pieces of labels, of base64 and of whatever else there is
  Certificates,  \* sequences of blocks [label, body]
  Widths,        \* pieces on a line in a file of certificates
  Comment,       \* a line that is not part of a block
  Texts,         \* what the class may have
  Width          \* base64 pieces on a line of the result; the code's 64

Dashes == "-----"
Begin == "BEGIN"
End == "END"
Space == " "
Newline == "nl"

Token == {Dashes, Begin, End, Space, Newline} \union Words
Tokens == Seq(Token)

\* Labels have neither markers nor newlines in them, bodies no spaces either.
IsCertificate(blocks) ==
  /\ blocks \in Seq([label : Tokens, body : Tokens]) \ {<< >>}
  /\ \A i \in DOMAIN blocks :
       /\ \A j \in DOMAIN blocks[i].label : blocks[i].label[j] \notin {Dashes, Newline}
       /\ \A j \in DOMAIN blocks[i].body : blocks[i].body[j] \notin {Dashes, Space, Newline}

ASSUME CertificatesAssumption == \A blocks \in Certificates : IsCertificate(blocks)
ASSUME TextsAssumption == Texts \subseteq Tokens
ASSUME WidthsAssumption == Width \in Nat \ {0} /\ Widths \subseteq Nat \ {0}

VARIABLES
  text,    \* what the class has
  round,   \* 1, or 2 when the result is normalized again
  pc,      \* where normalizePEMCert is
  cert,    \* what is left to read
  header,  \* the BEGIN line that has been taken off
  out,     \* what has been written
  first    \* the result of the first round

vars == <<text, round, pc, cert, header, out, first>>

BeginPrefix == <<Dashes, Begin, Space>>
EndPrefix == <<Dashes, End, Space>>
MarkerSuffix == <<Dashes>>

-----------------------------------------------------------------------------

After(s, n) == SubSeq(s, n + 1, Len(s))

\* Where pattern begins first in s, 0 if it does not occur.
IndexOf(s, pattern) ==
  LET starts == {i \in DOMAIN s : IsPrefix(pattern, After(s, i - 1))}
  IN  IF starts = {} THEN 0 ELSE Min(starts)

\* Without the tokens of cutset at its left or at its right.
Kept(s, cutset) == {i \in DOMAIN s : s[i] \notin cutset}
TrimLeft(s, cutset) ==
  IF Kept(s, cutset) = {} THEN << >> ELSE SubSeq(s, Min(Kept(s, cutset)), Len(s))
TrimRight(s, cutset) ==
  IF Kept(s, cutset) = {} THEN << >> ELSE SubSeq(s, 1, Max(Kept(s, cutset)))
TrimSpace(s) == TrimRight(TrimLeft(s, {Space, Newline}), {Space, Newline})

Unspaced(s) == FlattenSeq([i \in DOMAIN s |-> IF s[i] = Space THEN << >> ELSE <<s[i]>>])

\* Lines of width pieces; the last may be shorter.
Wrapped(body, width) ==
  FlattenSeq([i \in DOMAIN body |->
                IF i % width = 0 \/ i = Len(body) THEN <<body[i], Newline>> ELSE <<body[i]>>])

-----------------------------------------------------------------------------

\* Type correctness.
TypeOK ==
  /\ round \in {1, 2}
  /\ pc \in {"trim", "header", "block", "finish", "done"}
  /\ {text, cert, header, out, first} \subseteq Tokens
  /\ pc = "block" => IsPrefix(BeginPrefix, header)

Init ==
  /\ text \in Texts
  /\ round = 1
  /\ pc = "trim"
  /\ cert = text
  /\ header = << >> /\ out = << >> /\ first = << >>

\* Faulty variant of Trim: a text that has newlines is read like the others.
TrimAlways ==
  /\ pc = "trim"
  /\ cert' = TrimSpace(cert)
  /\ pc' = "header"
  /\ UNCHANGED <<text, round, header, out, first>>

\* A text that has newlines keeps them.
Trim ==
  /\ pc = "trim"
  /\ cert' = TrimSpace(cert)
  /\ pc' = IF Contains(cert', Newline) THEN "finish" ELSE "header"
  /\ UNCHANGED <<text, round, header, out, first>>

\* Faulty variant of HeaderEnd: whatever the text begins with.
HeaderEndAnywhere(s) ==
  LET tail == IndexOf(After(s, Len(BeginPrefix)), MarkerSuffix)
  IN  IF tail > 0 THEN Len(BeginPrefix) + tail ELSE 0

\* The end of the BEGIN line at the front of s, 0 if there is none.
HeaderEnd(s) ==
  LET tail == IndexOf(After(s, Len(BeginPrefix)), MarkerSuffix)
  IN  IF IsPrefix(BeginPrefix, s) /\ tail > 0 THEN Len(BeginPrefix) + tail ELSE 0

CutHeader ==
  /\ pc = "header"
  /\ HeaderEnd(cert) > 0
  /\ header' = SubSeq(cert, 1, HeaderEnd(cert))
  /\ cert' = TrimLeft(After(cert, HeaderEnd(cert)), {Space})
  /\ pc' = "block"
  /\ UNCHANGED <<text, round, out, first>>

EndStart == IndexOf(cert, EndPrefix)

\* The end of the END line, 0 if there is none.
FooterEnd ==
  LET begun == EndStart - 1 + Len(EndPrefix)
      tail == IndexOf(After(cert, begun), MarkerSuffix)
  IN  IF EndStart > 0 /\ tail > 0 THEN begun + tail ELSE 0

\* Faulty variant of CutBlock: the space between two blocks is not skipped.
CutBlockUntrimmed ==
  /\ pc = "block"
  /\ FooterEnd > 0
  /\ out' = out \o header \o <<Newline>> \o Wrapped(Unspaced(SubSeq(cert, 1, EndStart - 1)), Width)
                \o SubSeq(cert, EndStart, FooterEnd) \o <<Newline>>
  /\ cert' = After(cert, FooterEnd)
  /\ pc' = "header"
  /\ UNCHANGED <<text, round, header, first>>

CutBlock ==
  /\ pc = "block"
  /\ FooterEnd > 0
  /\ out' = out \o header \o <<Newline>> \o Wrapped(Unspaced(SubSeq(cert, 1, EndStart - 1)), Width)
                \o SubSeq(cert, EndStart, FooterEnd) \o <<Newline>>
  /\ cert' = TrimLeft(After(cert, FooterEnd), {Space})
  /\ pc' = "header"
  /\ UNCHANGED <<text, round, header, first>>

\* The text is over, or what is left of it is not a block.
LeaveLoop ==
  /\ \/ pc = "header" /\ HeaderEnd(cert) = 0
     \/ pc = "block" /\ FooterEnd = 0
  /\ pc' = "finish"
  /\ UNCHANGED <<text, round, cert, header, out, first>>

Result == IF out = << >> THEN TrimRight(cert, {Newline}) \o <<Newline>> ELSE out

Finish ==
  /\ pc = "finish"
  /\ IF round = 1
     THEN /\ round' = 2 /\ pc' = "trim"
          /\ first' = Result /\ cert' = Result
          /\ header' = << >> /\ out' = << >>
     ELSE pc' = "done" /\ out' = Result /\ UNCHANGED <<round, cert, header, first>>
  /\ UNCHANGED text

Stopped == pc = "done" /\ UNCHANGED vars

Next == Trim \/ CutHeader \/ CutBlock \/ LeaveLoop \/ Finish \/ Stopped

Spec == Init /\ [][Next]_vars
-----------------------------------------------------------------------------

\* A file with one block after the other, each on lines of width pieces, and the
\* same on one line.
Block(block, width) ==
  BeginPrefix \o block.label \o MarkerSuffix \o <<Newline>> \o Wrapped(block.body, width)
    \o EndPrefix \o block.label \o MarkerSuffix \o <<Newline>>
File(blocks, width) == FlattenSeq([i \in DOMAIN blocks |-> Block(blocks[i], width)])
OneLine(s) == [i \in DOMAIN s |-> IF s[i] = Newline THEN Space ELSE s[i]]

\* The same with a comment before a block.
Commented(blocks, at) ==
  FlattenSeq([i \in DOMAIN blocks |->
                (IF i = at THEN Comment \o <<Newline>> ELSE << >>) \o Block(blocks[i], Width)])

Normalized == round = 2

\* A file that comes on one line, from whatever its lines were, comes back block
\* by block with the lines of a PEM file; one with its newlines is left as it is.
Restored ==
  Normalized => \A blocks \in Certificates, width \in Widths :
    /\ text = OneLine(File(blocks, width)) => first = File(blocks, Width)
    /\ text = File(blocks, width) => first = text

\* One BEGIN line after the other, with nothing between them.
BeginTwice ==
  LET line == TrimSpace(text)
      rest == TrimLeft(After(line, HeaderEnd(line)), {Space})
  IN  HeaderEnd(line) > 0 /\ IsPrefix(BeginPrefix, rest)

\* To normalize twice is to normalize once, for damaged texts too: the patch of
\* the class and the text of a retry are the same.  A BEGIN line that is followed
\* by another may be cut off alone, and the other in the next round.
SameTwice == pc = "done" => out = first \/ BeginTwice

\* provision.go:137-140: "reconstructs the correct PEM block(s)" of a single
\* line, comments between the blocks or not.
EveryBlock ==
  Normalized => \A blocks \in Certificates : \A at \in 2..Len(blocks) :
    text = OneLine(Commented(blocks, at)) =>
      \A i \in DOMAIN blocks : Block(blocks[i], Width) \in SubSeqs(first)
=============================================================================
