--------------------------- MODULE MCResemblance ---------------------------
(* An instance of Resemblance: a raw frame, what was made of it, and a       *)
(* burst that begins with it.                                                *)
EXTENDS Resemblance

Plain == [dir |-> 1, stem |-> 1, camera |-> 1, serial |-> 1, taken |-> 10, dated |-> "exif",
          raw |-> TRUE, format |-> "tiff", pixels |-> 4, dense |-> 4, edited |-> FALSE,
          parent |-> 0, doc |-> 0, odoc |-> 0, origin |-> 0,
          frame |-> 1, gray |-> 1, bytes |-> 1, phash |-> 100, crop |-> 100, canon |-> 100,
          thumb |-> TRUE, marks |-> {}, sharp |-> 50, clip |-> 0, detail |-> 50,
          looks |-> {}, dull |-> FALSE, busy |-> TRUE, pale |-> "colour",
          chroma |-> "colour", tonal |-> "wide",
          tint |-> [chroma |-> "colour", tonal |-> "wide"]]
\* the next press: another raw frame whose preview looks almost the same
Second == [Plain EXCEPT !.stem = 2, !.taken = 11, !.gray = 2, !.bytes = 2, !.frame = 2, !.phash = 104,
                        !.sharp = 80, !.clip = 12]
\* its preview is the very same picture
Still == [Second EXCEPT !.frame = 1, !.gray = 1, !.dir = 2, !.clip = 0]
Third == [Second EXCEPT !.stem = 3, !.taken = 13, !.gray = 3, !.bytes = 3, !.frame = 3, !.phash = 110]
\* an export, indexed by a version that measured less; a turned one; a copy
Export == [Plain EXCEPT !.raw = FALSE, !.format = "jpeg", !.stem = 5, !.edited = TRUE, !.bytes = 5,
                        !.gray = 5, !.frame = 5, !.dir = 2, !.phash = 103, !.serial = 0,
                        !.pale = "none", !.chroma = Unmeasured, !.tonal = Unmeasured]
Turned == [Export EXCEPT !.phash = 300, !.crop = 300, !.canon = 101, !.chroma = "colour"]
Small == [Export EXCEPT !.pixels = 1, !.frame = 6, !.gray = 6, !.bytes = 6, !.marks = {"copy"}]
Copied == [Export EXCEPT !.bytes = 7, !.marks = {"low path", "copy"}, !.dir = 3]
Page == [Small EXCEPT !.camera = 0, !.taken = 0, !.phash = 700, !.crop = 700, !.canon = 0,
                      !.looks = {"printed"}, !.tint.chroma = "none", !.thumb = TRUE]

MCFile == 1..4
\* four raw frames of one moment; a group of versions; a page and a copy
MCArchives == {<<Plain, Second, [Second EXCEPT !.bytes = 4, !.gray = 4, !.frame = 4, !.stem = 4], Still>>,
               <<Plain, Second, Third, Export>>, <<Plain, Still, Copied, Export>>,
               <<Small, Third, Page, [Turned EXCEPT !.dated = "manual"]>>}
MCReadings == (2 :> {Copied, Third}) @@ (4 :> {Export, Small, Page})
Likeness(a, b) ==
    CASE a = b -> 100 [] {a, b} = {1, 5} -> 95 [] {a, b} = {1, 6} -> 92
      [] {a, b} = {5, 6} -> 93 [] {a, b} = {1, 2} -> 98 [] OTHER -> 40
MCSsim == [a \in 1..6 |-> [b \in 1..6 |-> Likeness(a, b)]]
MCCatalogue == {[path |-> 9, tail |-> 4, stars |-> 3], [path |-> 3, tail |-> 3, stars |-> 0]}
MCEnding == <<1, 2, 3, 4>>
MCDecisions == {<<>>, <<3, 4>>}
=============================================================================
