----------------------------- MODULE MCSmtpSession ------------------------------
(* Instances of SmtpSession for TLC: the messages mail programs send, and   *)
(* some that are cut off or in an unusual order.                            *)
EXTENDS SmtpSession, TLC

CONSTANTS a1, a2, a3

(* base64 as senders write it: in lines of four characters.                 *)
Encode(content) ==
  LET chars == Base64(content)
  IN  FlattenSeq([k \in 1 .. Len(chars) \div 4 |-> SubSeq(chars, 4 * k - 3, 4 * k) \o <<Space>>])

NewLeaf(kind, name, content) ==
  [kind |-> kind, name |-> name, disposition |-> "none", named |-> FALSE,
   extension |-> "none", declared |-> TRUE, magic |-> FALSE,
   encoding |-> "7bit", data |-> content, content |-> content]
InBase64(p) == [p EXCEPT !.encoding = "base64", !.data = Encode(p.content)]
Text  == NewLeaf("plain", "text", <<84>>)
Html  == NewLeaf("html", "html", <<60, 62>>)
Photo == InBase64([NewLeaf("other", "photo", <<255, 216>>) EXCEPT
                     !.disposition = "inline", !.named = TRUE, !.extension = "known"])
Pixel == [NewLeaf("other", "pixel", <<71>>) EXCEPT !.disposition = "inline"]
Notes == [NewLeaf("plain", "notes", <<78, 10>>) EXCEPT !.named = TRUE, !.extension = "other"]
File(n) == InBase64([NewLeaf("other", "file", [i \in 1..n |-> (77 * i) % 256]) EXCEPT
                       !.disposition = "attachment"])
Named(name, extension) ==
  [NewLeaf("other", name, <<77>>) EXCEPT !.disposition = "attachment", !.named = TRUE,
                                      !.extension = extension]
Program   == Named("program", "dangerous")
Library   == [Named("library", "executable") EXCEPT !.magic = TRUE]
Disguised == [Named("disguised", "known") EXCEPT !.magic = TRUE]
Mislabeled == [Named("mislabeled", "known") EXCEPT !.declared = FALSE]
Empty == [Named("empty", "other") EXCEPT !.data = << >>, !.content = << >>]
Multi(kind, parts) == [kind |-> kind, parts |-> parts]

Roots ==
  {Text, Html, Photo,
   Multi("alternative", <<Text, Html>>),
   Multi("alternative", <<Text, Multi("related", <<Html, Photo>>)>>),
   Multi("mixed", <<Text, File(1), Notes>>),
   Multi("mixed", <<Multi("alternative", <<Text, Html>>), File(2), Program>>),
   Multi("mixed", <<Multi("related", <<Html, Photo>>), File(5)>>),
   Multi("mixed", <<Text, Multi("attached", <<Html, File(2)>>)>>),
   Multi("mixed", <<Text, Photo, File(4)>>),
   Multi("mixed", <<Text, Disguised, Mislabeled, Library, Empty>>),
   Multi("mixed", <<Multi("mixed", <<Text, Multi("mixed", <<File(1)>>)>>), Photo>>),
   Multi("related", <<Multi("alternative", <<Text, Html>>), Photo, Pixel>>),
   Multi("related", <<Multi("mixed", <<Notes, Text>>), Html>>)}

MCName == {"text", "html", "photo", "pixel", "notes", "file", "program", "library",
           "disguised", "mislabeled", "empty"}

MCLetter ==
  {[header |-> "good", complete |-> TRUE, root |-> p] : p \in Roots}
    \cup {[header |-> header, complete |-> complete, root |-> Multi("mixed", <<Text, File(3)>>)] :
            header \in {"bad", "injected", "good"}, complete \in BOOLEAN}
    \cup {[header |-> "injected", complete |-> TRUE, root |-> Text]}

Symmetry == Permutations({a1, a2, a3})
===============================================================================
