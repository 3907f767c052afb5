------------------------------- MODULE MCSabFs -------------------------------
(* Two names, one a prefix of the other, so that is_open's text test can   *)
(* confuse "/a" with "/ab"; one nested path, so that directories can hold  *)
(* entries; data that is the text of a path.                               *)
EXTENDS SabFs

A == <<"a">>
AB == <<"a", "b">>
MCNames == {A, AB}
MCPaths == {<<>>, <<A>>, <<AB>>, <<A, A>>}
MCData == {<<"/", "a">>}
MCNameOrder == <<A, AB>>
(* The name mkdtempSync("/") makes from August 2026 to September 2028.    *)
T == <<"6", "J", "A", "A", "A", "A">>
MCEpoch == 26
MCTempNames == {A, T}
MCTempPaths == {<<>>, <<A>>, <<A, A>>, <<T>>}
MCTempOrder == <<T, A>>
MCTempPrefixes == {<<"/">>}
NoPrefixes == {}
(* The namespace and handle calls, with the calls that resolve links; and *)
(* the content, descriptor and attribute calls with what creates the files *)
(* and directories they work on, and reboot.                               *)
HandleOps == {"open", "close", "writeFile", "mkdir", "unlink", "rmdir", "rm",
              "link", "symlink", "rename", "readdir", "readlink", "realpath", "access",
              "chmod", "lchmod", "fchmod"}
ContentOps == {"open", "close", "write", "read", "lseek", "ftruncate", "writeFile",
               "appendFile", "truncate", "copyFile", "mkdir", "mkdtemp", "reboot",
               "chown", "lchown", "fchown", "utimes", "lutimes", "futimes"}
(* The calls that make a hard link, rewrite the link file in place through *)
(* a descriptor while its target's alias list still names it, and replace  *)
(* or remove it.                                                           *)
AliasOps == {"open", "close", "write", "writeFile", "link", "symlink", "unlink"}
(* Opening files and directories, closing them, and rebooting.           *)
RebootOps == {"open", "close", "mkdir", "reboot"}
=============================================================================
