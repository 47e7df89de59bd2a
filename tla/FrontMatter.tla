---------------------------- MODULE FrontMatter -----------------------------
(***************************************************************************)
(* extractFrontMatter of frontmatter.go: splits a document into its front  *)
(* matter and its body.  A document is a sequence of tokens, each standing *)
(* for a piece of text of length one: newline, space, a fence, any other   *)
(* text.  Offsets count from 0 as in the code, so input[a:b] is            *)
(* Slice(input, a, b).                                                     *)
(***************************************************************************)
EXTENDS Integers, Sequences, FiniteSetsExt

CONSTANTS
  Tokens,  \* what documents are made of
  MaxLen   \* bound on their length

NL == "newline"
SP == "space"

(* supportedFrontMatterTypes: the closing fences of an opening one.        *)
FenceClose == [f \in {"---", "+++", "{"} |->
                 CASE f = "---" -> <<"---", "...">> [] f = "+++" -> <<"+++">> [] f = "{" -> <<"}">>]

ASSUME FrontMatterAssumption == MaxLen \in Nat /\ NL \in Tokens

VARIABLES
  input,  \* the document
  out     \* what splitFrontMatter returned

frontMatterVars == <<input, out>>

Slice(s, a, b) == SubSeq(s, a + 1, b)
IsSpace(c) == c \in {NL, SP}

(* strings.TrimSpace                                                       *)
TrimSpace(s) ==
  LET kept == {k \in DOMAIN s : ~IsSpace(s[k])}
  IN  SubSeq(s, IF kept = {} THEN 1 ELSE Min(kept), IF kept = {} THEN 0 ELSE Max(kept))

(* strings.Index(s, "\n" + fence), or -1                                   *)
Index(s, fence) ==
  LET found == {k \in 1..Len(s) - 1 : s[k] = NL /\ s[k + 1] = fence}
  IN  IF found = {} THEN -1 ELSE Min(found) - 1

(* Mutant: the loop breaks at the first newline, after an empty line too.  *)
AtFirstNewline(s, k) == [s EXCEPT !.end = k - 1, !.stop = TRUE]

(* The loop for the first line with text: its body at a newline.           *)
AtNewline(s, k) ==
  [s EXCEPT !.start = IF s.end > 0 THEN s.end + 1 ELSE s.end, !.end = k - 1, !.stop = ~s.empty]

(* One iteration of that loop, which breaks at the newline of the first    *)
(* line with text.                                                         *)
Iterate(s, in, k) ==
  IF s.stop THEN s
  ELSE IF in[k] = NL THEN AtNewline(s, k)
  ELSE [s EXCEPT !.empty = @ /\ IsSpace(in[k])]

(* The loop's variables after each iteration.                              *)
Scan(in) ==
  LET loop[k \in 0..Len(in)] ==
        IF k = 0 THEN [start |-> 0, end |-> 0, empty |-> TRUE, stop |-> FALSE]
        ELSE Iterate(loop[k - 1], in, k)
  IN  loop

FirstLine(in) == Scan(in)[Len(in)]

(* The loop over closingFence breaks at the first that is found anywhere.  *)
FencesFound(rest, fences) == {n \in DOMAIN fences : Index(rest, fences[n]) >= 0}

(* Mutant: the body begins at the closing fence.                           *)
BodyWithFence(in, fence, at) == Slice(in, at, Len(in))

Body(in, fence, at) == Slice(in, at + 1, Len(in))

(* parses: whether fmParser accepts the front matter.                      *)
extractFrontMatter(in, parses) ==
  LET first  == FirstLine(in)
      line   == TrimSpace(Slice(in, first.start, first.end))
      fences == FenceClose[line[1]]
      rest   == Slice(in, first.end, Len(in))
      fence  == fences[Min(FencesFound(rest, fences))]
      at     == Index(rest, fence) + first.end + 1
  IN  IF ~(Len(line) = 1 /\ line[1] \in DOMAIN FenceClose)
        THEN [kind |-> "plain", body |-> in]
      ELSE IF FencesFound(rest, fences) = {}
        THEN [kind |-> "unterminated"]
      ELSE IF ~parses
        THEN [kind |-> "malformed"]
      ELSE [kind |-> "split", head |-> first.end, meta |-> Slice(in, first.end, at), fence |-> fence,
            body |-> Body(in, fence, at)]

FrontMatterInit ==
  /\ input \in UNION {[1..n -> Tokens] : n \in 0..MaxLen}
  /\ out = [kind |-> "none"]

FuncSplitFrontMatter ==
  /\ out.kind = "none"
  /\ \E parses \in BOOLEAN : out' = extractFrontMatter(input, parses)
  /\ UNCHANGED input

FrontMatterNext == FuncSplitFrontMatter

FrontMatterSpec == FrontMatterInit /\ [][FrontMatterNext]_frontMatterVars

-----------------------------------------------------------------------------
(* Properties                                                              *)

(* The fence at o opens front matter: nothing but space is before it, and  *)
(* nothing but space between it and the newline at e.                      *)
Opening(o, e) ==
  /\ o < e /\ input[o] \in DOMAIN FenceClose /\ input[e] = NL
  /\ \A k \in 1..o - 1 : IsSpace(input[k])
  /\ \A k \in o + 1..e - 1 : input[k] = SP

(* A line after the newline at e begins with a closing fence of f.         *)
Closes(f, e) ==
  \E k \in e..Len(input) - 1 :
    input[k] = NL /\ \E n \in DOMAIN FenceClose[f] : input[k + 1] = FenceClose[f][n]

(* A document whose first line with text is not an opening fence is all    *)
(* body; an opening fence that no later line closes is an error.           *)
KindIsRight ==
  out.kind # "none" =>
    LET opens == {p \in (DOMAIN input) \X (DOMAIN input) : Opening(p[1], p[2])} IN
    /\ out.kind = "plain" <=> opens = {}
    /\ out.kind = "plain" => out.body = input
    /\ out.kind = "unterminated" <=> \E p \in opens : ~Closes(input[p[1]], p[2])

(* Nothing of a document is lost or moved: the opening line, the front     *)
(* matter, a closing fence of the same kind and the body are the document, *)
(* and the front matter has no line that begins with that fence.           *)
SplitExact ==
  out.kind = "split" =>
    /\ input = SubSeq(input, 1, out.head) \o out.meta \o <<out.fence>> \o out.body
    /\ \E o \in 1..out.head :
         /\ Opening(o, out.head + 1)
         /\ \E n \in DOMAIN FenceClose[input[o]] : out.fence = FenceClose[input[o]][n]
    /\ Head(out.meta) = NL /\ out.meta[Len(out.meta)] = NL
    /\ Index(out.meta, out.fence) < 0

(* The front matter ends at the first line that begins with a closing      *)
(* fence of either kind.                                                   *)
FirstFenceCloses ==
  out.kind = "split" =>
    \A o \in 1..out.head : Opening(o, out.head + 1) =>
      \A n \in DOMAIN FenceClose[input[o]] : Index(out.meta, FenceClose[input[o]][n]) < 0

(* It does unless it is YAML, whose opening fence has two closing fences.  *)
FirstFenceClosesOthers ==
  out.kind = "split" =>
    \A o \in 1..out.head : Opening(o, out.head + 1) /\ input[o] # "---" =>
      \A n \in DOMAIN FenceClose[input[o]] : Index(out.meta, FenceClose[input[o]][n]) < 0
=============================================================================
