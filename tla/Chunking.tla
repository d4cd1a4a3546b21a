------------------------------ MODULE Chunking ------------------------------
(***************************************************************************)
(* chunk(): a help document is split into sections along its headings. Its *)
(* loops go over the blocks, over the units of a paragraph that is too     *)
(* long, and over what is cut from a unit that is too long; each iteration *)
(* is a step. A piece goes to its section as soon as it is made: the lists *)
(* that hold pieces and groups in between are read once, in their order.   *)
(*                                                                         *)
(* A character is its place in the document. Where a text has its tokens   *)
(* is up to the tokenizer. A heading is its words, with "(part 2)" as one. *)
(***************************************************************************)
EXTENDS Naturals, Sequences, FiniteSets

CONSTANTS
  Word,         (* the words of headings                                   *)
  Block,        (* the blocks a document may have                          *)
  Blocks,       (* bound on their number                                   *)
  Name,         (* the document's title                                    *)
  BeginsToken(_, _),
                (* does a token of the text begin at its i-th character?   *)
  MaxTokens,    (* SECTION_TOKENS                                          *)
  Special       (* the tokens every text has beside its characters         *)

Level == 1 .. 6

(* A word, with 0, or a part number.                                       *)
Token == Word \X Nat
Numbered(n) == <<"part", n>>
Separator == <<"/", 0>>

(* A paragraph is its sentences, and a sentence is where each of its words *)
(* ends. level 0: a paragraph. text: that of the block, which may be       *)
(* missing below a heading.                                                *)
Paragraph ==
  {p \in Seq(Seq(Nat \ {0})) :
     /\ \A s \in 1 .. Len(p) : p[s] # <<>>
     /\ \A s \in 1 .. Len(p) : \A w \in 1 .. Len(p[s]) - 1 : p[s][w] < p[s][w + 1]
     /\ \A s \in 1 .. Len(p) - 1 : p[s][Len(p[s])] < p[s + 1][Len(p[s + 1])]}

BlockType == [level : {0} \cup Level, heading : Seq(Token), text : Paragraph]

ASSUME TokenAssumption == MaxTokens \in Nat \ {0, 1} /\ Special \in Nat /\ Blocks \in Nat
ASSUME BlockAssumption == /\ {"part", "/"} \subseteq Word /\ Name \in Seq(Token)
                          /\ Block \subseteq BlockType
                          /\ \A b \in Block : b.level = 0 => b.text # <<>>

VARIABLES
  blocks,      (* how many blocks have been read                           *)
  read,        (* how many characters they have                            *)
  headings,    (* the heading of each level that stands above              *)
  sections,    (* the sections that are complete                           *)
  section,     (* the one that is being filled                             *)
  ends,        (* where the units of a long paragraph end, from the next   *)
  at,          (* where the one before ended                               *)
  unit,        (* _split_long's current: units that go together            *)
  piece,       (* what remains of a piece to be cut and added to a section *)
  complete     (* has everything been read?                                *)

paragraphVars == <<ends, at, unit, piece>>
documentVars == <<blocks, read, headings, sections, section, paragraphVars, complete>>

(* The characters after the a-th, up to the b-th.                          *)
Span(a, b) == [i \in 1 .. b - a |-> a + i]

(* token_count: by the embedding model's tokenizer, of the whole text.     *)
Count(text) == Cardinality({i \in 1 .. Len(text) : BeginsToken(text, i)}) + Special

(* cut: is it one part that was cut by characters, and no more?            *)
Section(title) == [title |-> title, content |-> <<>>, cut |-> FALSE]

SectionType == [title : Seq(Token), content : Seq(Nat), cut : BOOLEAN]

DocumentTypeOK ==
  /\ blocks \in 0 .. Blocks /\ read \in Nat
  /\ DOMAIN headings \subseteq Level /\ headings \in [DOMAIN headings -> Seq(Token)]
  /\ sections \in Seq(SectionType) /\ section \in SectionType
  /\ ends \in Seq(Nat) /\ at \in Nat
  /\ unit \in Seq(Nat) /\ piece \in Seq(Nat)
  /\ complete \in BOOLEAN

DocumentInit ==
  /\ blocks = 0 /\ read = 0
  /\ headings = <<>>
  /\ sections = <<>> /\ section = Section(<<>>)
  /\ ends = <<>> /\ at = 0 /\ unit = <<>> /\ piece = <<>>
  /\ complete = FALSE

-----------------------------------------------------------------------------
(* Blocks *)

(* Of the headings above, all but those of this level and below stay.      *)
Under(level, heading) ==
  [k \in {k \in DOMAIN headings : k < level} \cup {level} |->
     IF k = level THEN heading ELSE headings[k]]

(* A title is that of the document and the path of the headings above,     *)
(* outermost first; the document's own title, as a heading, is left out.   *)
Step(path, k) ==
  IF k \in DOMAIN path /\ path[k] # Name THEN <<Separator>> \o path[k] ELSE <<>>

Title(path) ==
  Step(path, 1) \o Step(path, 2) \o Step(path, 3) \o Step(path, 4) \o Step(path, 5) \o Step(path, 6)

(* What is in hand becomes a section, unless it is nothing.                *)
WithSection == IF section.content = <<>> THEN sections ELSE Append(sections, section)

(* A group begins at every heading.                                        *)
Open(b) ==
  IF b.level = 0 THEN UNCHANGED <<headings, sections, section>>
  ELSE /\ headings' = Under(b.level, b.heading)
       /\ sections' = WithSection
       /\ section' = Section(Title(headings'))

(* The units of a paragraph: its sentences, or the words of a single one.  *)
Ends(p) == IF Len(p) = 1 THEN p[1] ELSE [s \in 1 .. Len(p) |-> p[s][Len(p[s])]]

(* _split_long: a paragraph that fits is one piece.                        *)
Begin(p) ==
  LET end == read + p[Len(p)][Len(p[Len(p)])]
  IN  /\ read' = end
      /\ UNCHANGED unit
      /\ IF Count(Span(read, end)) <= MaxTokens
           THEN piece' = Span(read, end) /\ at' = end /\ UNCHANGED ends
           ELSE /\ ends' = [u \in 1 .. Len(Ends(p)) |-> read + Ends(p)[u]]
                /\ UNCHANGED <<at, piece>>

NothingInHand == ends = <<>> /\ unit = <<>> /\ piece = <<>>

ReadBlock ==
  /\ NothingInHand /\ ~complete /\ blocks < Blocks
  /\ blocks' = blocks + 1
  /\ \E b \in Block :
       /\ Open(b)
       /\ IF b.text = <<>> THEN UNCHANGED <<read, paragraphVars>> ELSE Begin(b.text)
  /\ UNCHANGED complete

Finish ==
  /\ NothingInHand /\ ~complete
  /\ sections' = WithSection /\ section' = Section(<<>>)
  /\ complete' = TRUE
  /\ UNCHANGED <<blocks, read, headings, paragraphVars>>

-----------------------------------------------------------------------------
(* Pieces of a long paragraph *)

(* One more unit goes with those before, if they fit together.             *)
TakeUnit ==
  /\ piece = <<>> /\ ends # <<>>
  /\ LET text == Span(at, Head(ends))
     IN  IF unit # <<>> /\ Count(unit \o text) > MaxTokens
           THEN piece' = unit /\ unit' = text
           ELSE unit' = unit \o text /\ UNCHANGED piece
  /\ at' = Head(ends) /\ ends' = Tail(ends)
  /\ UNCHANGED <<blocks, read, headings, sections, section, complete>>

LastUnits ==
  /\ piece = <<>> /\ ends = <<>> /\ unit # <<>>
  /\ piece' = unit /\ unit' = <<>>
  /\ UNCHANGED <<blocks, read, headings, sections, section, ends, at, complete>>

MutantAdd(text, cut) ==
  IF section.content # <<>> /\ Count(text) > MaxTokens
    THEN /\ sections' = Append(sections, section)
         /\ section' = [section EXCEPT !.content = text, !.cut = cut]
    ELSE /\ section' = [section EXCEPT !.content = @ \o text, !.cut = cut /\ section.content = <<>>]
         /\ UNCHANGED sections

(* A piece is joined to its section, or begins the next one.               *)
Add(text, cut) ==
  IF section.content # <<>> /\ Count(section.content \o text) > MaxTokens
    THEN /\ sections' = Append(sections, section)
         /\ section' = [section EXCEPT !.content = text, !.cut = cut]
    ELSE /\ section' = [section EXCEPT !.content = @ \o text, !.cut = cut /\ section.content = <<>>]
         /\ UNCHANGED sections

TooLong == Count(piece) > MaxTokens /\ Len(piece) > 1

(* How many characters are cut from what is too long on its own: as many   *)
(* as would fit if the tokens were spread evenly. What is cut off is not   *)
(* counted again.                                                          *)
Share ==
  LET share == (Len(piece) * MaxTokens) \div Count(piece)
  IN  IF share > 1 THEN share ELSE 1

Cut ==
  /\ TooLong
  /\ Add(SubSeq(piece, 1, Share), TRUE)
  /\ piece' = SubSeq(piece, Share + 1, Len(piece))
  /\ UNCHANGED <<blocks, read, headings, ends, at, unit, complete>>

AddPiece ==
  /\ piece # <<>> /\ ~TooLong
  /\ Add(piece, FALSE)
  /\ piece' = <<>>
  /\ UNCHANGED <<blocks, read, headings, ends, at, unit, complete>>

DocumentNext == ReadBlock \/ TakeUnit \/ LastUnits \/ Cut \/ AddPiece \/ Finish

DocumentSpec == DocumentInit /\ [][DocumentNext]_documentVars

-----------------------------------------------------------------------------
(* "(part n)", if other sections have the same title.                      *)
Part(i) ==
  LET same == {j \in DOMAIN sections : sections[j].title = sections[i].title}
  IN  IF same = {i} THEN 0 ELSE Cardinality({j \in same : j <= i})

FullTitle(i) ==
  IF Part(i) = 0 THEN sections[i].title ELSE Append(sections[i].title, Numbered(Part(i)))

-----------------------------------------------------------------------------
(* Properties *)

(* Where the i-th section ends.                                            *)
End(i) == IF i = 0 THEN 0 ELSE sections[i].content[Len(sections[i].content)]

(* Every section goes on where the one before ended, and the last one ends *)
(* with the document: no word is lost, repeated or out of place, wherever  *)
(* the text had to be split.                                               *)
NothingLost ==
  /\ \A i \in DOMAIN sections :
       /\ sections[i].content # <<>>
       /\ sections[i].content = Span(End(i - 1), End(i))
  /\ complete => End(Len(sections)) = read

(* "packed together up to `max_tokens`": so is every section, also one     *)
(* that goes on after a part cut by characters, but not the cut part       *)
(* itself, nor a single character, if not even that fits.                  *)
Fits(s) == Count(s.content) <= MaxTokens \/ s.cut \/ Len(s.content) = 1

SectionsFit == \A i \in DOMAIN sections : Fits(sections[i])

(* A heading that reads like another one with its part number.             *)
ReadsAsPart(i, j) ==
  /\ Part(i) = 0 /\ Part(j) # 0
  /\ sections[i].title = Append(sections[j].title, Numbered(Part(j)))

(* "so titles stay distinct": also when a heading comes back, is split, or *)
(* is the document's own title, but not if one is written like a part.     *)
TitlesDistinct ==
  \A i, j \in DOMAIN sections :
    i # j => FullTitle(i) # FullTitle(j) \/ ReadsAsPart(i, j) \/ ReadsAsPart(j, i)

(* The sections are the document, in parts that can be embedded and told   *)
(* apart.                                                                  *)
SectionsCarryAll == NothingLost /\ SectionsFit /\ TitlesDistinct
=============================================================================
