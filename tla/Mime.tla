---------------------------------- MODULE Mime ----------------------------------
(* What becomes of the text of a message: internal/parser (parser.go) takes *)
(* the bodies out of it, internal/attachment (handler.go) the attachments,  *)
(* each with a walk of its own over the MIME parts.                         *)
(*                                                                          *)
(* A part is a leaf, with a name that tells it from the others (a body is   *)
(* not empty), or a multipart with its parts, where "related" stands for    *)
(* every multipart but the two that the parser has code of their own for,   *)
(* and "attached" for an alternative whose disposition is that of an        *)
(* attachment (of the other multiparts the disposition makes no difference).*)
(* The walks are recursive functions on parts, so that they can be proved   *)
(* about (SmtpServerProofs).                                                *)
EXTENDS Naturals, FiniteSets, Sequences, SequencesExt

CONSTANTS
  MaxAttachmentSize,       \* 10 MB
  MaxTotalAttachmentSize,  \* 25 MB
  MaxNesting,              \* how deep multiparts are nested at most
  Name,                    \* the names of leaves
  NoBody                   \* the empty body

ASSUME MimeAssumption ==
  /\ MaxAttachmentSize \in Nat /\ MaxTotalAttachmentSize \in Nat /\ MaxNesting \in Nat
  /\ NoBody \notin Name

(* named: it has a file name, in either of its headers.  "known" extensions *)
(* have content types of their own, and declared says whether the declared  *)
(* type is one of them; "dangerous" ones are executable too.  magic: its    *)
(* first bytes are those of an executable.  "7bit" is any encoding but      *)
(* base64 (mime/multipart itself decodes parts that are quoted-printable).  *)
(* data is what was sent, content what the sender encoded; in base64, data  *)
(* has the values 0..63 of the characters, Padding and Space.               *)
Leaf ==
  [kind : {"plain", "html", "other"}, name : Name,
   disposition : {"none", "inline", "attachment"}, named : BOOLEAN,
   extension : {"none", "other", "known", "executable", "dangerous"},
   declared : BOOLEAN, magic : BOOLEAN, encoding : {"base64", "7bit"},
   data : Seq(0..255), content : Seq(0..255)]

Alternatives == {"alternative", "attached"}
Multiparts == Alternatives \cup {"mixed", "related"}

Nested[n \in 0..MaxNesting] ==
  IF n = 0 THEN Leaf ELSE Leaf \cup [kind : Multiparts, parts : Seq(Nested[n - 1])]

Part == Nested[MaxNesting]

IsMultipart(p) == p.kind \in Multiparts

Bodies(html, text) == [html |-> html, text |-> text]
Nothing == Bodies(NoBody, NoBody)

(* The bodies of c, and those of b where c has none.                        *)
Over(b, c) == Bodies(IF c.html = NoBody THEN b.html ELSE c.html,
                     IF c.text = NoBody THEN b.text ELSE c.text)

LeafBodies(p) ==
  CASE p.kind = "plain" -> Bodies(NoBody, p.name)
    [] p.kind = "html"  -> Bodies(p.name, NoBody)
    [] OTHER            -> Nothing

(* The last text and the last HTML; multiparts are passed over.             *)
ExtractMultipartAlternative(parts) ==
  FoldLeft(LAMBDA b, p : Over(b, LeafBodies(p)), Nothing, parts)

(* Attachments are skipped, an alternative that is one too; of the other    *)
(* multiparts only alternatives are entered.                                *)
ExtractMultipartMixed(parts) ==
  LET IsBody(p) == IF IsMultipart(p) THEN p.kind # "attached" ELSE p.disposition # "attachment"
      Of(p) == IF p.kind = "alternative" THEN ExtractMultipartAlternative(p.parts)
                                         ELSE LeafBodies(p)
  IN  FoldLeft(LAMBDA b, p : IF IsBody(p) THEN Over(b, Of(p)) ELSE b, Nothing, parts)

(* The first text and the first HTML, down any multipart.                   *)
ExtractMultipartGeneric[p \in Part] ==
  IF p.kind \in Alternatives THEN ExtractMultipartAlternative(p.parts)
  ELSE IF IsMultipart(p)
    THEN FoldLeft(LAMBDA b, q : Over(ExtractMultipartGeneric[q], b), Nothing, p.parts)
    ELSE LeafBodies(p)

(* A message that is no multipart is one body, text unless it is HTML.      *)
ExtractBody(p) ==
  CASE p.kind \in Alternatives -> ExtractMultipartAlternative(p.parts)
    [] p.kind = "mixed"        -> ExtractMultipartMixed(p.parts)
    [] p.kind = "related"      -> ExtractMultipartGeneric[p]
    [] p.kind = "html"         -> LeafBodies(p)
    [] OTHER                   -> Bodies(NoBody, p.name)

(* An encoded line break ("%0a") in a field is taken for an injection.      *)
ContainsCRLFInjection(m) == m.header = "injected"

ExtractHeaders(m) == m.header # "bad" /\ ~ContainsCRLFInjection(m)

(* Parse: an error while the bodies are read leaves both empty ...          *)
Parse(m) ==
  IF IsMultipart(m.root) /\ ~m.complete THEN Nothing ELSE ExtractBody(m.root)

(* ... and SafeParse makes any other error an e-mail without contents: the  *)
(* raw text is stored with it.                                              *)
SafeParse(m) == IF ExtractHeaders(m) THEN Parse(m) ELSE Nothing
-------------------------------------------------------------------------------
(* A file name makes an attachment of a part, inline or not.                *)
IsAttachment(p) == p.disposition = "attachment" \/ p.named

Padding == 64
Space == 65

WithoutSpace(data) == SelectSeq(data, LAMBDA c : c # Space)

(* base64: white space is removed, and every four characters, or what is    *)
(* left at the end, give a byte less than there are without the padding.    *)
DecodeBase64(data) ==
  LET src == WithoutSpace(data)
      Block(i) ==
        LET Char(j) == IF i + j <= Len(src) /\ src[i + j] # Padding THEN src[i + j] ELSE 0
            valid == Cardinality({j \in 0..3 : i + j <= Len(src) /\ src[i + j] # Padding})
        IN  SubSeq(<<Char(0) * 4 + Char(1) \div 16,
                     (Char(1) % 16) * 16 + Char(2) \div 4,
                     (Char(2) % 4) * 64 + Char(3)>>, 1, IF valid = 0 THEN 0 ELSE valid - 1)
  IN  FlattenSeq([k \in 1 .. (Len(src) + 3) \div 4 |-> Block(4 * k - 3)])

DecodeContent(p) == IF p.encoding = "base64" THEN DecodeBase64(p.data) ELSE p.data

Attachment(p) == [p EXCEPT !.data = DecodeContent(p)]

(* Mutation: nested multiparts are not entered.                             *)
ExtractFromOuterMultipart(parts) ==
  LET IsFile(p) == ~IsMultipart(p) /\ IsAttachment(p)
      files == SelectSeq(parts, IsFile)
  IN  [i \in DOMAIN files |-> Attachment(files[i])]

(* The attachments in the order they have in the text.                      *)
ExtractFromPart[p \in Part] ==
  IF IsMultipart(p) THEN FlattenSeq([i \in DOMAIN p.parts |-> ExtractFromPart[p.parts[i]]])
  ELSE IF IsAttachment(p) THEN <<Attachment(p)>> ELSE << >>

ExtractFromMultipart(parts) == FlattenSeq([i \in DOMAIN parts |-> ExtractFromPart[parts[i]]])

(* Only a multipart has attachments; when its end is missing, those found   *)
(* are dropped with the error.                                              *)
ExtractAttachments(m) ==
  IF m.header # "bad" /\ IsMultipart(m.root) /\ m.complete
    THEN ExtractFromMultipart(m.root.parts) ELSE << >>

TotalSize(attachments) == FoldLeft(LAMBDA n, p : n + Len(p.data), 0, attachments)
ValidateTotalSize(attachments) == TotalSize(attachments) <= MaxTotalAttachmentSize

IsDangerousExtension(p) == p.extension = "dangerous"

(* Only an extension with content types of its own is compared, and a       *)
(* generic type (which counts as declared) goes with any.                   *)
ValidateContentType(p) == p.extension = "known" => p.declared

(* The signatures are longer than nothing.                                  *)
DetectExecutableMagicBytes(p) == p.data # << >> /\ p.magic

(* What calls itself executable is in no disguise.                          *)
IsDisguisedExecutable(p) ==
  p.extension \notin {"executable", "dangerous"} /\ DetectExecutableMagicBytes(p)

ValidateAttachment(p) ==
  /\ Len(p.data) <= MaxAttachmentSize
  /\ ~IsDangerousExtension(p) /\ ValidateContentType(p) /\ ~IsDisguisedExecutable(p)

(* All attachments are dropped when together they are too large.            *)
ProcessAttachments(attachments) ==
  IF ValidateTotalSize(attachments)
    THEN FoldLeft(LAMBDA kept, p : IF ValidateAttachment(p) THEN Append(kept, p) ELSE kept,
                  << >>, attachments)
    ELSE << >>

(* The e-mail as it is stored, if nothing fails (module MailStore).         *)
ProcessEmail(m) ==
  [bodies |-> SafeParse(m), attachments |-> ProcessAttachments(ExtractAttachments(m))]
-------------------------------------------------------------------------------
(* The leaves of p, each with its place and the kinds of the multiparts it  *)
(* is in.                                                                   *)
Leaves[p \in Part] ==
  IF IsMultipart(p)
    THEN UNION {{[part |-> l.part, at |-> <<i>> \o l.at, under |-> <<p.kind>> \o l.under] :
                   l \in Leaves[p.parts[i]]} : i \in DOMAIN p.parts}
    ELSE {[part |-> p, at |-> << >>, under |-> << >>]}

(* base64 as in RFC 4648: three bytes give four characters, and Padding     *)
(* takes the place of what is missing at the end.                           *)
Base64(content) ==
  LET Byte(i) == IF i <= Len(content) THEN content[i] ELSE 0
      Char(b, j) ==
        CASE j = 0 -> Byte(b + 1) \div 4
          [] j = 1 -> (Byte(b + 1) % 4) * 16 + Byte(b + 2) \div 16
          [] j = 2 -> IF b + 2 > Len(content) THEN Padding
                      ELSE (Byte(b + 2) % 16) * 4 + Byte(b + 3) \div 64
          [] OTHER -> IF b + 3 > Len(content) THEN Padding ELSE Byte(b + 3) % 64
  IN  [i \in 1 .. 4 * ((Len(content) + 2) \div 3) |->
         Char(3 * ((i - 1) \div 4), (i - 1) % 4)]

(* The sender may have put white space, such as line ends, into base64.     *)
IsEncoded(p) ==
  IF p.encoding = "base64" THEN WithoutSpace(p.data) = Base64(p.content)
                           ELSE p.data = p.content

(* header: "injected" has an encoded line break in a field, net/mail cannot *)
(* read a "bad" one.  complete: the last boundary of the root is there.     *)
Message ==
  {m \in [header : {"good", "injected", "bad"}, complete : BOOLEAN, root : Part] :
     \A l, k \in Leaves[m.root] :
       /\ IsEncoded(l.part) /\ (l.part.magic => l.part.content # << >>)
       /\ l.part.name = k.part.name => l = k}

(* Where the parser does not look for a body: in a multipart within an      *)
(* alternative, and in one other than an alternative, or in one that is an  *)
(* attachment, within a mixed one.                                          *)
Hidden(under) ==
  \/ \E i \in 1 .. Len(under) - 1 : under[i] \in Alternatives
  \/ Len(under) > 1 /\ under[1] = "mixed" /\ under[2] # "alternative"

Superseded(p, stored) ==
  \/ p.kind = "html" /\ stored.bodies.html # NoBody
  \/ p.kind = "plain" /\ stored.bodies.text # NoBody

(* Every part of message m is in what is stored of it: as the body or,      *)
(* if it is a file, as an attachment, once, with the contents the sender    *)
(* encoded.  The exceptions are named: files that are blocked or too large, *)
(* alone or together; bodies hidden from the parser or replaced by another  *)
(* of their kind; parts that are neither text nor a file.  And nothing else *)
(* is stored: a body is a part of its kind, or all of a message without     *)
(* parts.                                                                   *)
IsAccountedFor(m, stored) ==
  LET kept == ToSet(stored.attachments)
      leaves == Leaves[m.root]
      files == {l \in leaves : l.under # << >> /\ IsAttachment(l.part)}
      bodies == leaves \ files
      Blocked(p) == \/ p.extension = "dangerous"
                    \/ p.extension = "known" /\ ~p.declared
                    \/ p.extension \in {"none", "other", "known"} /\ p.magic
                    \/ Len(p.content) > MaxAttachmentSize
      tooMuch == MapThenSumSet(LAMBDA l : Len(l.part.content), files) > MaxTotalAttachmentSize
  IN  /\ IsInjective(stored.attachments)
      /\ \A k \in kept : k.data = k.content /\ ~Blocked(k)
      /\ \A l \in files :
           (\E k \in kept : k.name = l.part.name) <=> ~Blocked(l.part) /\ ~tooMuch
      /\ {k.name : k \in kept} \subseteq {l.part.name : l \in files}
      /\ \A l \in bodies :
           \/ l.part.name \in {stored.bodies.html, stored.bodies.text}
           \/ Hidden(l.under) \/ Superseded(l.part, stored)
           \/ l.part.kind = "other" /\ l.under # << >>
      /\ stored.bodies.html \in {NoBody} \cup {l.part.name : l \in {k \in leaves : k.part.kind = "html"}}
      /\ stored.bodies.text \in {NoBody} \cup
           {l.part.name : l \in {k \in leaves : k.part.kind = "plain" \/ k.under = << >>}}

(* Of a message that is complete and has a good header, every part is       *)
(* accounted for.  Of any other message no body is kept besides the raw     *)
(* text, and attachments only when it is complete and can be read.          *)
IsStored(m, stored) ==
  LET whole == m.complete \/ ~IsMultipart(m.root)
  IN  /\ m.header = "good" /\ whole => IsAccountedFor(m, stored)
      /\ m.header = "bad" \/ ~whole => stored = [bodies |-> Nothing, attachments |-> << >>]
      /\ m.header = "injected" => stored.bodies = Nothing
===============================================================================
