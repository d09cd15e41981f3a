---------------------------- MODULE MCLibEntry -----------------------------
(***************************************************************************)
(* LibEntry for TLC.  An id may spell a chip without a table or an unknown *)
(* interface.                                                              *)
(***************************************************************************)
EXTENDS LibEntry

MCUsbIds == {<<"USB", "W2">>, <<"USB", "other">>}
MCSdioIds == {<<"SDIO", "W2L">>, <<"other", "W2L">>}
MCNames == {<<"USB", "W2">>}
=============================================================================
