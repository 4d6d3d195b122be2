---------------------------- MODULE CodeCompressor ----------------------------
(***************************************************************************)
(* Source code without its bodies (headroom-core: code_compressor.rs).     *)
(***************************************************************************)
EXTENDS Content

CONSTANT MinBodyLines

Languages == <<"rust", "python", "go", "perl", "cpp", "javascript", "java">>

(* The words that hint at a language, and those that open a definition. *)
Hints ==
  [rust       |-> {"fn ", "impl ", "let mut ", "pub fn", "->"},
   python     |-> {"def ", "elif ", "self.", "import ", "__init__"},
   go         |-> {"func ", "package ", ":=", "nil"},
   perl       |-> {"sub ", "my $", "use strict", "@_"},
   cpp        |-> {"#include", "std::", "->", "template<"},
   javascript |-> {"function ", "const ", "=>", "require(", "export "},
   java       |-> {"public class", "private ", "void ", "System.out"}]

DefinitionMarkers ==
  [rust       |-> {"fn ", "impl ", "struct ", "enum ", "trait ", "mod ", "pub "},
   python     |-> {"def ", "class ", "async def "},
   go         |-> {"func ", "type ", "package "},
   perl       |-> {"sub ", "package ", "use "},
   cpp        |-> {"#include", "class ", "struct ", "namespace ", "template"},
   javascript |-> {"function ", "class ", "const ", "let ", "export ", "async "},
   java       |-> {"public ", "private ", "protected ", "class ", "interface "}]

IndentationScoped(language) == language = "python"

(* The language most hinted at, the first of equals, from two hints on. *)
DetectLanguage(lines) ==
  LET Score(language) == Cardinality(Hints[language] \cap Words(lines))
      Better(best, language) ==
        IF Score(language) >= 2 /\ (best = "none" \/ Score(language) > Score(best))
        THEN language ELSE best
  IN  FoldLeft(Better, "none", Languages)

IsDefinition(line, language) == line.opener \in DefinitionMarkers[language]

(* Index just past the lines indented under a definition; blanks belong. *)
EndOfIndentedBlock(lines, start, openerIndent) ==
  Min({Len(lines) + 1} \cup
      {i \in start .. Len(lines) :
         lines[i].mark # "blank" /\ lines[i].indent <= openerIndent})

Opens(lines, from, to)  == Total([i \in 1 .. to - from + 1 |-> lines[from + i - 1].opens])
Closes(lines, from, to) == Total([i \in 1 .. to - from + 1 |-> lines[from + i - 1].closes])

(* scan_braced_block: to the first line where the braces seen so far       *)
(* balance; none seen, or never balanced, is no block at all.              *)
ScanBracedBlock(lines, opener) ==
  LET balanced == {i \in opener .. Len(lines) :
                     /\ Opens(lines, opener, i) > 0
                     /\ Opens(lines, opener, i) <= Closes(lines, opener, i)}
      found    == Opens(lines, opener, Len(lines)) > 0
  IN  IF balanced # {}
      THEN [end |-> Min(balanced) + 1, scannedTo |-> Min(balanced) + 1, foundOpen |-> TRUE]
      ELSE [end |-> opener + 1, scannedTo |-> Len(lines) + 1, foundOpen |-> found]

(* Where the body after line i ends, where the walk goes on, and how many  *)
(* closing lines stay.                                                     *)
BodyAfter(lines, language, i) ==
  IF IndentationScoped(language)
  THEN LET end == EndOfIndentedBlock(lines, i + 1, lines[i].indent)
       IN  [end |-> end, next |-> Max({end, i + 1}), closing |-> 0]
  ELSE LET scan == ScanBracedBlock(lines, i)
       IN  [end |-> scan.end, closing |-> 1,
            next |-> Max({i + 1, IF scan.foundOpen THEN scan.end ELSE scan.scannedTo})]

Elidable(i, body) ==
  IF body.end - (i + 1) >= MinBodyLines THEN i + 1 .. body.end - 1 - body.closing ELSE {}

(* mark_kept, the other way round: the lines that go. *)
BodyLines(lines, language) ==
  LET from[i \in 1 .. Len(lines) + 1] ==
        IF i > Len(lines) THEN {}
        ELSE IF ~IsDefinition(lines[i], language) THEN from[i + 1]
        ELSE LET body == BodyAfter(lines, language, i)
             IN  Elidable(i, body) \cup from[body.next]
  IN  from[1]

CodeOffer(c) ==
  LET language == DetectLanguage(c.lines)
      body     == BodyLines(c.lines, language)
  IN  IF Unfit(c, "code") # "none" THEN Declines(Unfit(c, "code"))
      ELSE IF language = "none" THEN Declines("wrong_content_type")
      ELSE IF body = {} THEN Declines("not_smaller")
      ELSE Offers(<<Note("header", 0, Len(c.lines))>>
                  \o Rendered(Len(c.lines), DOMAIN c.lines \ body, "gap")
                  \o <<Marker>>)
=============================================================================
