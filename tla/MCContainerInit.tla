--------------------------- MODULE MCContainerInit ---------------------------
(* Small instances of ContainerInit.                                       *)
EXTENDS ContainerInit, TLC

ExitCodes == {0, 3, 143}
=============================================================================
