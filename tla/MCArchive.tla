----------------------------- MODULE MCArchive ------------------------------
(* Archives of up to a few entries, with counts that do not fit.  Integers *)
(* of four bytes have 256 values.                                          *)

MCArchives ==
    [exists : {TRUE}, size : {39, 200, 400}, magic : {TRUE},
     index_pos : {40, 64, 70, 300}, index_size : {0, 27, 28, 84, 116, 255},
     entries : {0, 1, 2, 5, 32}, segments : {0, 1, 2, 16}, dependencies : {0, 1, 4, 32}]
    \cup [exists : BOOLEAN, size : {200}, magic : BOOLEAN, index_pos : {64},
          index_size : {28}, entries : {0}, segments : {0}, dependencies : {0}]
=============================================================================
