--------------------------- MODULE MCHwConfigCoex ---------------------------
(***************************************************************************)
(* Instances of HwConfigCoex for TLC.  Sizes are scaled: one byte of ROM,  *)
(* two bytes to a download chunk and images of 1 .. 6 bytes, so that a     *)
(* download has zero, one or several chunks and a last chunk that is full  *)
(* or not.                                                                 *)
(***************************************************************************)
EXTENDS HwConfigCoex

\* Every chip libbt.c has an interface for.
AllChips == {<<"W1", "SDIO">>, <<"W1U", "SDIO">>, <<"W1U", "USB">>,
  <<"W2", "USB">>, <<"W2", "SDIO">>, <<"W2", "PCIE">>,
  <<"W2L", "USB">>, <<"W2L", "SDIO">>}

\* <<1, 2>> has nothing to download beyond the ROM, <<4, 0>> has no valid DCCM
\* header, and 7 is above MAX_ALLOC_SIZE.
SomeImages == {<<1, 2>>, <<4, 3>>, <<5, 2>>, <<4, 0>>, <<7, 2>>}

Paras == {{}, {1, 4}}

\* The chips with a 15.4 thread, which download nothing.
W2LChips == {c \in AllChips : c[1] = "W2L"}
NoImages == {<<1, 2>>}
OnePara == {{}}
=============================================================================
