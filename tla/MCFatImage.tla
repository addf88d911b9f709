----------------------------- MODULE MCFatImage -----------------------------
(***************************************************************************)
(* FatImage with int64 of five bits: the boundary values of every field.   *)
(***************************************************************************)
EXTENDS FatImage

Entries(offsets, csizes) ==
    {[level |-> l, offset |-> o, csize |-> c, usize |-> 1, sha |-> TRUE] :
        l \in {"v1", "v3"}, o \in offsets, c \in csizes}

OddEntries ==
    {[level |-> l, offset |-> 1, csize |-> 1, usize |-> u, sha |-> h] :
        l \in {"v1", NoLevel}, u \in {0, 1, 5}, h \in BOOLEAN}

\* Images whose trailer fits: the index of 3 or 4 bytes begins at 8 or 7.
Numbers ==
    [total : {12}, indexOffset : {7, 8}, indexSize : {3, 4}, digest : {TRUE}, dictOffset : {-1, 0, 1, 7, 15},
     dictSize : {0, 1, 2, 14}, dictSha : {TRUE}, count : {1, 2}, entries : [Slots -> Entries({-1, 0, 1, 3, 15}, {1, 2, 14})]]

\* Images with odd trailers, digests, counts and entries.
Shapes ==
    [total : {0, 1, 11, 12}, indexOffset : {-1, 0, 8, 9, 11}, indexSize : {-1, 0, 2, 3, 7}, digest : BOOLEAN,
     dictOffset : {1}, dictSize : {-1, 0, 1, 3}, dictSha : BOOLEAN, count : 0 .. 2,
     entries : {[k \in Slots |-> e] : e \in OddEntries}]

MCImages == Numbers \cup Shapes
=============================================================================
