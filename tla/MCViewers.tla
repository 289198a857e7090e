------------------------------ MODULE MCViewers ------------------------------
(* The files of the four viewers for TLC.                                  *)
EXTENDS Viewers, TLC

MCNames == {".dll", ".efi", ".exe", ".ico", ".iso", ".ISO", ".is"}
MCFold == [n \in MCNames |-> IF n = ".ISO" THEN ".iso" ELSE n]

-----------------------------------------------------------------------------
(* .dll: up to three functions and three names, with ordinals that miss    *)
(* the function table by one, empty functions, a limit the names and the   *)
(* unnamed functions reach together, and a base that takes the last        *)
(* ordinal out of a DWORD.                                                 *)
MCFiles ==
  UNION {[functions : {f}, names : {n}, base : {0, 6},
          empty : SUBSET Indices(f), ordinal : [Indices(n) -> 0 .. 3]] :
           f \in 0 .. 3, n \in 0 .. 3}

-----------------------------------------------------------------------------
(* .efi: every text of four characters; sections that miss the file, are   *)
(* empty, or come second; and, in files above the limit, texts longer than *)
(* an int: with a NUL in the section, behind it, or nowhere in the file.   *)
MCEfiBaseEnd == (32 :> 2 @@ 64 :> 3)
Sbat(ptr, raw) == [sbat |-> TRUE, ptr |-> ptr, raw |-> raw]
Other == [sbat |-> FALSE, ptr |-> 1, raw |-> 2]
Efi(size, magic, optSize, sections, bytes) ==
  [size |-> size, magic |-> magic, optSize |-> optSize, sections |-> sections,
   bytes |-> bytes]
Filler(n) == [i \in 1 .. n |-> "x"]
MCEfiFiles ==
  {Efi(5, 64, 3, <<Sbat(1, 4)>>, <<"x">> \o t) :
     t \in [1 .. 4 -> {"x", "cr", "lf", "nul"}]}
  \cup {Efi(n, b, 2, s, Filler(n)) : n \in {0, 3, 6, 7}, b \in {32, 64},
          s \in {<<>>, <<Other>>, <<Sbat(0, 2)>>, <<Sbat(2, 0)>>, <<Other, Sbat(2, 3), Sbat(9, 9)>>,
                 <<Sbat(3, 4)>>, <<Sbat(7, 1)>>}}
  \cup {Efi(5, 32, 2, <<Sbat(1, 3)>>, <<"x", "x", "bad", "lf", "x">>)}
  \cup {Efi(n, 32, 2, <<Sbat(1, 7)>>, <<"x", "lf">> \o t \o <<"x", "lf">>) :
          n \in {9, 10}, t \in {<<"x", "cr", "lf", "x", "x">>, <<"lf", "nul", "bad", "lf", "x">>,
                               <<"nul", "x", "x", "lf", "x">>, <<"x", "bad", "x", "nul", "x">>}}

-----------------------------------------------------------------------------
(* .ico: up to three images, one after the other, overlapping, or outside; *)
(* directories that end before the file does, with it, and behind it.      *)
IcoE(bits, bytes, at_) == [bits |-> bits, bytes |-> bytes, offset |-> at_]
IcoEs == {IcoE(0, 30, 54), IcoE(32, 12, 54), IcoE(0, 16, 60), IcoE(0, 3, 60),
          IcoE(8, 1, 84), IcoE(0, 1, 85), IcoE(0, 0, 54), IcoE(0, 31, 54)}
IcoPng == [NoImage EXCEPT !.png = TRUE, !.ihdr = TRUE, !.depth = 8, !.color = 6,
                          !.icon = TRUE]
IcoDib(h) == [NoImage EXCEPT !.header = h, !.bits = 24, !.icon = h = 40]
MCIcoFiles ==
  {[size |-> s, header |-> h, count |-> Len(es), entries |-> es,
    images |-> 54 :> a @@ 60 :> b] :
     s \in {5, 53, 54, 84, 91}, h \in BOOLEAN,
     es \in {<<>>} \cup [1 .. 1 -> IcoEs] \cup [1 .. 3 -> IcoEs \ {IcoE(0, 0, 54)}]
           \cup [1 .. 4 -> {IcoE(0, 3, 60)}],
     a \in {IcoPng, IcoDib(12)}, b \in {IcoDib(40), IcoDib(8)}}

-----------------------------------------------------------------------------
(* .iso: images of up to six sectors of 4 bytes: directory trees, boot     *)
(* catalogues, UDF volumes, and descriptors of every kind.                 *)
Dir(extent, size) == [NoRecord EXCEPT !.length = 2, !.directory = TRUE,
                                      !.extent = extent, !.size = size]
Primary1(extent, size) == [Blank EXCEPT !.id = "primary", !.root = Dir(extent, size)]
End == [Blank EXCEPT !.id = "end"]
Image(sectors, bad, content) == [sectors |-> sectors, bad |-> bad, at |-> content]

\* Sectors 3 to 5 hold directories that may name each other and themselves.
Slots == { NoRecord, Dir(3, 4), Dir(4, 3), Dir(4, 7), Dir(5, 2), Dir(9, 1),
           [NoRecord EXCEPT !.length = 1, !.traits = {"level2"}],
           [NoRecord EXCEPT !.length = 2, !.name = 13, !.traits = {"rr"}],
           [Dir(5, 4) EXCEPT !.fits = FALSE], [Dir(4, 4) EXCEPT !.special = TRUE] }
Tree(a, b, c) == (3 :> [Blank EXCEPT !.records = (0 :> a @@ 2 :> b)])
              @@ (4 :> [Blank EXCEPT !.records = (0 :> c)])
              @@ (5 :> [Blank EXCEPT !.records = (0 :> Dir(3, 2) @@ 2 :> Dir(4, 1))])
Trees == { Image(n, bad, 1 :> Primary1(3, size) @@ 2 :> End @@ Tree(a, b, c))
           : n \in {6}, bad \in {{}}, size \in {3, 6}, a \in Slots,
             b \in Slots, c \in Slots }
Rings == { Image(n, {}, 1 :> Primary1(1, size)) : n \in {3, 5}, size \in 12 .. 15 }

E1(indicator, platform, count) ==
  [indicator |-> indicator, platform |-> platform, count |-> count, empty |-> FALSE]
Entries == { NoEntry, E1(88, 0, 0), E1(90, 1, 1), E1(90, 2, 2), E1(91, 3, 1), E1(7, 0, 0),
             [NoEntry EXCEPT !.indicator = 88] }
Catalogs == { Image(4, {}, 1 :> [Blank EXCEPT !.id = "boot", !.catalog = 3] @@
                       2 :> End @@
                       3 :> [Blank EXCEPT !.entries = <<E1(1, 4, 0), i, a, b, c, d>>])
              : i \in {NoEntry, E1(88, 0, 0)}, a \in Entries, b \in Entries,
                c \in Entries, d \in Entries \ {E1(7, 0, 0)} }

Anchor(location, length) ==
  [Blank EXCEPT !.tag = 2, !.location = location, !.length = length]
Volume(revision) == [Blank EXCEPT !.tag = 6, !.revision = revision]
Udf == { Image(n, {}, 1 :> [Blank EXCEPT !.id = x] @@ 2 :> [Blank EXCEPT !.id = y]
                   @@ 3 :> [Blank EXCEPT !.id = "tea"] @@ 4 :> s @@ 5 :> t
                   @@ 6 :> u @@ 7 :> v)
         : n \in {6, 8}, x \in {"nsr2", "none"}, y \in {"nsr3", "tea"},
           s \in {Blank, Anchor(6, 5), Anchor(5, 1), Volume("2.01")},
           t \in {Blank, Anchor(6, 8), Anchor(3, 15), Anchor(0, 4), [Blank EXCEPT !.tag = 8],
                  Volume("1.02"), Volume(None)},
           u \in {Volume("2.50"), Volume(None), [Blank EXCEPT !.tag = 8], Anchor(4, 8)},
           v \in {Blank, Anchor(4, 5), Anchor(6, 4), Volume("2.60")} }

Ids == {"boot", "primary", "joliet", "extended", "enhanced", "end", "other", "none",
        "nsr3", "tea"}
Mixed == { Image(n, bad, 0 :> [Blank EXCEPT !.hybrid = TRUE]
                      @@ 1 :> [Blank EXCEPT !.id = a, !.root = Dir(4, 4)]
                      @@ 2 :> [Blank EXCEPT !.id = b, !.root = Dir(4, 2)]
                      @@ 3 :> [Blank EXCEPT !.id = c])
           : n \in {1, 5}, bad \in {{}, {4}}, a \in Ids, b \in Ids,
             c \in {"end", "tea", "primary"} }

MCImages == Trees \cup Rings \cup Catalogs \cup Udf \cup Mixed
=============================================================================
