----------------------------- MODULE MCWsClient -----------------------------
(***************************************************************************)
(* WsClient for TLC.  Bytes has the ends of the ranges that utf8d tells    *)
(* apart, Lengths the ends of the ranges of the header's encodings.        *)
(***************************************************************************)
EXTENDS WsClient

MCLengths == {0, 1, 125, 126, 127, 128}
MCMasks == {<<0, 0, 0, 0>>, <<1, 2, 127, 255>>}
MCBytes == {65, 128, 143, 144, 159, 160, 191, 193, 194, 223, 224, 225, 237, 239, 240, 241, 244, 245}
=============================================================================
