--------------------------- MODULE MCActaDiscovery ---------------------------
(* Small sites: an index that lags behind, actas with and without a hole,     *)
(* scanned actas, placeholders of future draws and a page that links to actas.*)
EXTENDS ActaDiscovery

Site(nothing, page, bare) ==
  [d \in Draws |-> IF d \in nothing THEN "nothing"
                   ELSE IF d \in page THEN "page"
                   ELSE IF d \in bare THEN "bare" ELSE "marked"]

MCSites == {Site({6, 7, 8}, {}, {}),
            Site({7, 8}, {4}, {5, 6}),
            Site({3, 4, 8}, {}, {1, 6, 7}),
            Site({}, {}, {5, 7, 8})}

At(year, draw, probeable) == [year |-> year, draw |-> draw, probeable |-> probeable]

MCIndexes == {{At(1, 1, TRUE)},
              {At(1, 2, TRUE), At(0, 7, TRUE)},
              {At(1, 3, TRUE), At(1, 3, FALSE)}}
=============================================================================
