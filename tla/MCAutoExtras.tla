---------------------------- MODULE MCAutoExtras ----------------------------
(* Dictionaries, inputs and old files.  TLC has no notation for tuples in a .cfg. *)
EXTENDS AutoExtras
MCLower(b) == IF b = "A" THEN "a" ELSE b
Item(data, level, form) == [data |-> data, level |-> level, form |-> form]
MCDictionaries ==
  { [level |-> 0, items |-> << Item(<<"b", "a", "b">>, 0, "good"), Item(<<"A", "b">>, 0, "good"),
                               Item(<<"b">>, 1, "bad"), Item(<< >>, 0, "skip") >>],
    [level |-> 0, items |-> << Item(<<"b">>, 1, "malformed") >>] }
MCInputs == { <<"a", "b", "A", "b", "c">>, <<"b", "a", "a", "c", "b">> }
MCOldFiles ==
  { << >>, << <<"a", "b">>, <<"c", "a", "c">> >>, << <<"a", "b">>, <<"A", "b">> >> }
MCBuiltin == { <<"c", "b">>, <<"b", "c">> }
============================================================================
