------------------------------- MODULE Ulibc -------------------------------
(***************************************************************************)
(* The user's copy of the library, one file per function under usercode/.  *)
(* Every function has the text of its counterpart in klibc.c, with the     *)
(* calls renamed, so each is the operator of module Klibc; the functions   *)
(* they call are given where they are parameters of what the text does.    *)
(***************************************************************************)
EXTENDS Klibc

ubound(min, value, max) == bound(min, value, max)

umemcpy(m, dst, src, len) == CopyUp(m, dst, src, len, 1)
umemmove(m, dst, src, len) == Move(m, dst, src, len, 1)
ublkmov(m, dst, src, len) == blkmov(m, dst, src, len)
umemset(m, buf, len, value) == memset(m, buf, len, value)
umemclr(m, buf, len) == memclr(m, buf, len)

ustrlen(m, str) == strlen(m, str)
ustrcpy(m, dst, src) == strcpy(m, dst, src)
ustrcat(m, dst, src) == ustrcpy(m, dst + ustrlen(m, dst), src)
ustrcmp(m, s1, s2) == strcmp(m, s1, s2)

ucvtdec0(value) == cvtdec0(value)
ucvtdec(value) ==
  IF value < 0 THEN <<MINUS>> \o ucvtdec0(Negated(value)) ELSE ucvtdec0(value)
ucvtuns0(u) == (IF u.q # 0 THEN ucvtdec0(u.q) ELSE <<>>) \o <<u.r + ZERO>>
ucvtuns(u) == ucvtuns0(u)
ucvthex(bits) == cvthex(bits)
ucvtoct(bits) == cvtoct(bits)
ustr2int(str, base) == str2int(str, base)

upad(extra, padchar) == pad(extra, padchar)
upadstr(str, width, leftadjust, padchar) == padstr(str, width, leftadjust, padchar)
usprint(fmt, args) == sprint(fmt, args)
=============================================================================
