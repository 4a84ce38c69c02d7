------------------------------ MODULE MCReads ------------------------------
(***************************************************************************)
(* One image in four versions: as long as max_object, one byte longer,     *)
(* longer than a shared read takes in, and short.  Clients ask for all of  *)
(* it, for its headers, for part of it, or whether it has changed.         *)
(***************************************************************************)
EXTENDS ImageReads

MCLengths == <<2, 3, 5, 1>>

Get == [method |-> "GET", cond |-> None, range |-> FALSE]

MCAsks ==
    { Get,
      [Get EXCEPT !.method = "HEAD"],
      [Get EXCEPT !.range = TRUE],
      [Get EXCEPT !.cond = [by |-> "etag", version |-> 1]],
      [Get EXCEPT !.cond = [by |-> "date", version |-> 2]] }

MCModes == Mode \ {[cache |-> FALSE, coalesce |-> FALSE]}
=============================================================================
