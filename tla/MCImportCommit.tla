--------------------------- MODULE MCImportCommit ---------------------------
(***************************************************************************)
(* Two commits over two rows.  The rows share no address, share one, or    *)
(* one of them cannot become a contact for each reason a row has.          *)
(***************************************************************************)
EXTENDS ImportCommit

CONSTANTS A, B, C

MCRows == 1..2

Plain(email, phone, field) ==
  [readable |-> TRUE, named |-> TRUE, email |-> email, phone |-> phone, field |-> field]

MCSheets ==
  {<<Plain(A, B, "fits"), Plain(B, C, None)>>,
   <<Plain(A, B, None), [Plain(C, None, None) EXCEPT !.readable = FALSE]>>,
   <<[Plain(A, B, None) EXCEPT !.named = FALSE], Plain(A, None, "misfits")>>,
   <<Plain(A, Blank, None), Plain(A, None, "fits")>>}

MCMappings == {{"name", "email"}, {"name", "phone"}, {"name", "email", "phone", "field"}}
=============================================================================
