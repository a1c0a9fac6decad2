------------------------------ MODULE VmOptions -------------------------------
(***************************************************************************)
(* The options with which the runtime creates its VM, mOptions, as         *)
(* startVm() puts them together from properties.  The launcher inherits    *)
(* startVm() from Android's runtime; the code is the repository's copy of  *)
(* it, src/src/launcher/runtime/ShashlikRuntime.cpp.                       *)
(*                                                                         *)
(* An option is its name (the text up to a value), its value, and the      *)
(* function that its extraInfo points to, or "null".  A setting s gives    *)
(* each property a string; "" stands for one that is unset or cannot be    *)
(* read, since property_get() returns its default for both.                *)
(***************************************************************************)
EXTENDS Naturals, Sequences

Opt(name, value) == [name |-> name, value |-> value, extraInfo |-> "null"]

\* Properties that startVm() reads.  That of dexopt-flags is three, one for each
\* of the substrings that strstr() looks for.
Prop == {"dalvik.vm.checkjni", "ro.kernel.android.checkjni", "dalvik.vm.execution-mode",
         "dalvik.vm.stack-trace-file", "dalvik.vm.check-dex-sum", "log.redirect-stdio",
         "dalvik.vm.enableassertions", "dalvik.vm.jniopts", "dalvik.vm.heapstartsize",
         "dalvik.vm.heapsize", "dalvik.vm.jit.codecachesize", "dalvik.vm.heapgrowthlimit",
         "dalvik.vm.heapminfree", "dalvik.vm.heapmaxfree",
         "dalvik.vm.heaptargetutilization", "ro.config.low_ram", "v=", "o=", "m=",
         "dalvik.vm.lockprof.threshold", "dalvik.vm.jit.op", "dalvik.vm.jit.method",
         "persist.sys.language", "persist.sys.country", "ro.product.locale.language",
         "ro.product.locale.region"}

-------------------------------------------------------------------------------
(* Rows of startVm() *)

If(condition, option) == IF condition THEN <<option>> ELSE <<>>

\* Added if the property is not empty, with it as the value.
Given(s, p, name) == If(s[p] # "", Opt(name, s[p]))

\* Added if the property is "true".
Flag(s, p, name) == If(s[p] = "true", Opt(name, ""))

\* property_get() with a default.
Get(s, p, default) == IF s[p] = "" THEN default ELSE s[p]

HeapOptions(s) ==
  <<Opt("-Xms", Get(s, "dalvik.vm.heapstartsize", "4m")),
    Opt("-Xmx", Get(s, "dalvik.vm.heapsize", "16m")),
    Opt("-XX:mainThreadStackSize=", "24K")>>
  \o Given(s, "dalvik.vm.jit.codecachesize", "-Xjitcodecachesize:")
  \o Given(s, "dalvik.vm.heapgrowthlimit", "-XX:HeapGrowthLimit=")
  \o Given(s, "dalvik.vm.heapminfree", "-XX:HeapMinFree=")
  \o Given(s, "dalvik.vm.heapmaxfree", "-XX:HeapMaxFree=")
  \o Given(s, "dalvik.vm.heaptargetutilization", "-XX:HeapTargetUtilization=")
  \o Flag(s, "ro.config.low_ram", "-XX:LowMemoryMode")

Verify == [n |-> "none", r |-> "remote", a |-> "all"]
Dexopt == [n |-> "none", v |-> "verified", a |-> "all", f |-> "full"]

\* A letter that is not in the switch adds nothing.
DexoptFlags(s) ==
  LET v == s["v="]  o == s["o="] IN
  (IF v \in DOMAIN Verify THEN <<Opt("-Xverify:", Verify[v])>> ELSE <<>>)
  \o (IF o \in DOMAIN Dexopt THEN <<Opt("-Xdexopt:", Dexopt[o])>> ELSE <<>>)
  \o (IF s["m="] = "y" THEN <<Opt("-Xgenregmap", ""), Opt("-Xgc:", "precise")>> ELSE <<>>)

\* The property decides if it is "true" or "false", else the kernel parameter.
CheckJni(s) ==
  \/ s["dalvik.vm.checkjni"] = "true"
  \/ s["dalvik.vm.checkjni"] # "false" /\ s["ro.kernel.android.checkjni"] = "1"

CheckJniOptions(s) ==
  IF CheckJni(s) THEN <<Opt("-Xcheck:", "jni"), Opt("-Xjnigreflimit:", "2000")>> ELSE <<>>

ExecutionMode ==
  [p \in {"int:portable", "int:fast", "int:jit"} |->
     CASE p = "int:portable" -> "portable" [] p = "int:fast" -> "fast" [] OTHER -> "jit"]

ExecutionModeOption(s) ==
  LET p == s["dalvik.vm.execution-mode"] IN
  IF p \in DOMAIN ExecutionMode THEN <<Opt("-Xint:", ExecutionMode[p])>> ELSE <<>>

\* "all" becomes -ea without a colon.
AssertOption(s) ==
  LET p == s["dalvik.vm.enableassertions"] IN
  If(p # "", IF p = "all" THEN Opt("-ea", "") ELSE Opt("-ea", p))

DebugOptions(s) ==
  <<Opt("-agentlib:jdwp", "")>>
  \o CheckJniOptions(s)
  \o Given(s, "dalvik.vm.lockprof.threshold", "-Xlockprofthreshold:")
  \o Given(s, "dalvik.vm.jit.op", "-Xjitop:")
  \o Given(s, "dalvik.vm.jit.method", "-Xjitmethod:")
  \o ExecutionModeOption(s)
  \o Flag(s, "dalvik.vm.check-dex-sum", "-Xcheckdexsum")
  \o Flag(s, "log.redirect-stdio", "-Xlog-stdio")
  \o AssertOption(s)
  \o Given(s, "dalvik.vm.jniopts", "-Xjniopts:")
  \o Given(s, "dalvik.vm.stack-trace-file", "-Xstacktracefile:")

\* Slip: each of the two falls back on its own.
ReadLocaleSlip(s) ==
  <<IF s["persist.sys.language"] = "" THEN Get(s, "ro.product.locale.language", "en")
    ELSE s["persist.sys.language"],
    IF s["persist.sys.country"] = "" THEN Get(s, "ro.product.locale.region", "US")
    ELSE s["persist.sys.country"]>>

\* readLocale(): language and region.
ReadLocale(s) ==
  IF s["persist.sys.language"] = "" /\ s["persist.sys.country"] = ""
  THEN <<Get(s, "ro.product.locale.language", "en"),
         Get(s, "ro.product.locale.region", "US")>>
  ELSE <<s["persist.sys.language"], s["persist.sys.country"]>>

\* Their texts lie in arrays whose scope ends before the VM reads them; modelled as a
\* build that leaves them in place.
LocaleOptions(s) ==
  <<Opt("-Duser.language=", ReadLocale(s)[1]), Opt("-Duser.region=", ReadLocale(s)[2])>>

-------------------------------------------------------------------------------
(* The extra options: a text of pieces and blanks, cut into tokens.  A piece is *)
(* as much of an option as has no blank in it; pieces that no blank parts are   *)
(* one option, which no VM knows.                                               *)

Blank == "blank"

Glued(t) == IF Len(t) = 1 THEN Opt(t[1], "extra") ELSE Opt("unrecognised", "extra")

\* The end of the token that begins at i: the first blank after it, or the end.
TokenEnd(text, i) ==
  CHOOSE j \in i + 1 .. Len(text) + 1 :
    /\ j = Len(text) + 1 \/ text[j] = Blank
    /\ \A k \in i + 1 .. j - 1 : text[k] # Blank

\* Slip: the blank that ends a token is not stepped over, and blanks are skipped
\* only once before the loop.
ParseExtraOptsSlip(text) ==
  LET from[i \in 1 .. Len(text) + 1] ==
        IF i > Len(text) THEN <<>>
        ELSE LET end == TokenEnd(text, i) IN
             <<Glued(SubSeq(text, i, end - 1))>> \o from[end]
  IN from[1]

\* parseExtraOpts(): from a place in the text on.
ParseExtraOpts(text) ==
  LET from[i \in 1 .. Len(text) + 1] ==
        IF i > Len(text) THEN <<>>
        ELSE IF text[i] = Blank THEN from[i + 1]
        ELSE LET end == TokenEnd(text, i) IN
             <<Glued(SubSeq(text, i, end - 1))>> \o from[end]
  IN from[1]

-------------------------------------------------------------------------------
(* startVm() adds one JavaVMOption, opt, over and over, each time with another *)
(* text; its extraInfo keeps what it was assigned last.  A list is what        *)
(* mOptions got so far, with that extraInfo.                                   *)

Carrying(function, row) == [k \in DOMAIN row |-> [row[k] EXCEPT !.extraInfo = function]]

Assign(list, function) == [list EXCEPT !.extraInfo = function]

\* Options that are added with no assignment between them.
Add(list, row) == [list EXCEPT !.options = @ \o Carrying(list.extraInfo, row)]

\* opt is not initialised.
Fresh == [options |-> <<>>, extraInfo |-> "uninitialised"]

AddHooks(list) ==
  LET exit == Add(Assign(list, "runtime_exit"), <<Opt("exit", "")>>)
      vfprintf == Add(Assign(exit, "runtime_vfprintf"), <<Opt("vfprintf", "")>>) IN
  Add(Assign(vfprintf, "runtime_isSensitiveThread"), <<Opt("sensitiveThread", "")>>)

BaseOptions(s) ==
  <<Opt("-verbose:gc", "")>> \o HeapOptions(s) \o DexoptFlags(s) \o DebugOptions(s)

LastOptions(s) == LocaleOptions(s) \o <<Opt("-Djava.io.tmpdir=", "/sdcard")>>

\* parseExtraOpts() has a JavaVMOption of its own, cleared.
AddExtraOpts(list, text) == [list EXCEPT !.options = @ \o ParseExtraOpts(text)]

\* Slip: opt.extraInfo is not reset behind the hooks.
StartVmOptionsSlip(s, text) ==
  LET base == Add(AddHooks(Fresh), BaseOptions(s)) IN
  Add(Assign(AddExtraOpts(base, text), "null"), LastOptions(s)).options

\* Slip: the extra options are read before those of the other properties.
StartVmOptionsEarlySlip(s, text) ==
  LET extra == AddExtraOpts(AddHooks(Fresh), text)
      base == Add(Assign(extra, "null"), BaseOptions(s)) IN
  Add(Assign(base, "null"), LastOptions(s)).options

\* What startVm() adds to mOptions before JNI_CreateJavaVM().
StartVmOptions(s, text) ==
  LET base == Add(Assign(AddHooks(Fresh), "null"), BaseOptions(s))
      extra == AddExtraOpts(base, text) IN
  Add(Assign(extra, "null"), LastOptions(s)).options
===============================================================================
