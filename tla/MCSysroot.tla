------------------------------ MODULE MCSysroot -----------------------------
(* Three processes meet in an empty sysroot of a Linux target; musl's libc   *)
(* comes with an empty librt.a.                                              *)
EXTENDS Sysroot

CONSTANTS p1, p2, p3
MCProcs == {p1, p2, p3}
MCParts == <<"sysinc", "libc", "librt">>
MCDummies == {"librt"}
MCNone == {}
=============================================================================
