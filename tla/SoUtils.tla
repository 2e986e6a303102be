------------------------------ MODULE SoUtils ------------------------------
(***************************************************************************)
(* What both versions of so_stdio.c share: utils.c, which is the same file *)
(* in tema_linux and tema_windows, and what the kernels do to a file.      *)
(***************************************************************************)
EXTENDS Integers, Sequences

SO_EOF == -1

AllModes == {"r", "r+", "w", "w+", "a", "a+"}
Whence == {"SEEK_SET", "SEEK_CUR", "SEEK_END"}

\* The value of a byte of _buffer that nothing has written since malloc.
Junk == 256

-----------------------------------------------------------------------------
(* utils.c: the tests on the last operation and on the mode.               *)

IsWriteOperation(s) == s.lastOp = "write"
IsReadOperation(s) == s.lastOp = "read"
CanRead(mode) == mode \in {"r", "a+", "r+", "w+"}
CanWrite(mode) == mode \in {"w", "w+", "r+", "a", "a+"}

\* (int) of a char, which is signed.
SignedChar(b) == IF b \in 128..255 THEN b - 256 ELSE b

-----------------------------------------------------------------------------
(* External: files.                                                        *)

Larger(a, b) == IF a >= b THEN a ELSE b
Smaller(a, b) == IF a <= b THEN a ELSE b

\* The file after bytes are written at offset at; a hole reads as zeroes.
Overlay(data, at, bytes) ==
  [i \in 1..(IF bytes = <<>> THEN Len(data) ELSE Larger(Len(data), at + Len(bytes))) |->
     IF i \in (at + 1)..(at + Len(bytes)) THEN bytes[i - at]
     ELSE IF i <= Len(data) THEN data[i] ELSE 0]
=============================================================================
