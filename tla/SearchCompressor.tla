--------------------------- MODULE SearchCompressor ---------------------------
(***************************************************************************)
(* Search hits grouped under their file (headroom-core:                    *)
(* search_compressor.rs).                                                  *)
(***************************************************************************)
EXTENDS Content

CONSTANTS
  MaxFiles,
  MaxMatchesPerFile,
  MaxTotalMatches,
  MinMatches

ASSUME SearchCaps == {MaxFiles, MaxMatchesPerFile, MaxTotalMatches} \subseteq Nat

(* parse_match: path, line number and a second colon. *)
ParseMatch(line) == line.hit = "match"

Hits(lines)     == {i \in DOMAIN lines : ParseMatch(lines[i])}
Unparsed(lines) == Ascending(DOMAIN lines \ Hits(lines))

HitsIn(lines, path) == Ascending({i \in Hits(lines) : lines[i].path = path})

(* The files in the order they first appear, which is their relevance. *)
Files(lines) ==
  LET firsts == Ascending({i \in Hits(lines) : HitsIn(lines, lines[i].path)[1] = i})
  IN  [k \in DOMAIN firsts |-> lines[firsts[k]].path]

(* Both caps apply: the one per file, and what the files before have left  *)
(* of the one for all.                                                     *)
Wanted(lines, path) == Min({MaxMatchesPerFile, Len(HitsIn(lines, path))})

Share(lines, files, k) ==
  LET taken  == Total([j \in 1 .. k - 1 |-> Wanted(lines, files[j])])
      budget == IF MaxTotalMatches > taken THEN MaxTotalMatches - taken ELSE 0
  IN  Min({Wanted(lines, files[k]), budget})

\* FAULT for FileParts: what the total cap held back is not counted.
FilePartsByFileCap(lines, files, k) ==
  LET hits == HitsIn(lines, files[k])
  IN  <<Note("file", hits[1], 0)>>
        \o [j \in 1 .. Share(lines, files, k) |-> Show(hits[j])]
        \o (IF Len(hits) > MaxMatchesPerFile
            THEN <<Note("more", hits[1], Len(hits) - MaxMatchesPerFile)>> ELSE <<>>)

(* A file's lines: its name, its share of hits, how many are not shown. *)
FileParts(lines, files, k) ==
  LET hits  == HitsIn(lines, files[k])
      shown == Share(lines, files, k)
  IN  <<Note("file", hits[1], 0)>>
        \o [j \in 1 .. shown |-> Show(hits[j])]
        \o (IF Len(hits) > shown THEN <<Note("more", hits[1], Len(hits) - shown)>> ELSE <<>>)

SearchOffer(c) ==
  LET lines    == NonBlank(c.lines)
      total    == Cardinality(Hits(lines))
      files    == Files(lines)
      listed   == DOMAIN FirstOf(files, MaxFiles)
      shown    == Total([k \in listed |-> Share(lines, files, k)])
      unparsed == Unparsed(lines)
  IN  IF Unfit(c, "search") # "none" THEN Declines(Unfit(c, "search"))
      ELSE IF total < MinMatches THEN Declines("below_threshold")
      ELSE IF Len(files) = total THEN Declines("not_smaller")
      ELSE Offers(<<Note("header", 0, total)>>
                  \o FlattenSeq([k \in listed |-> FileParts(lines, files, k)])
                  \o (IF Len(files) > MaxFiles
                      THEN <<Note("more_files", 0, Len(files) - MaxFiles)>> ELSE <<>>)
                  \o [k \in DOMAIN unparsed |-> Show(unparsed[k])]
                  \o (IF total > shown
                      THEN <<Note("elided", 0, total - shown)>> ELSE <<>>)
                  \o <<Marker>>)
=============================================================================
