------------------------------ MODULE MCLauncher ------------------------------
(* Small instances of Launcher. *)
EXTENDS Launcher, TLC

\* The zygote, an apk and am as the controller starts them, and others.
MCCommandLine ==
  {<<"-Xzygote", "dir", "--zygote", "--start-system-server">>,
   <<"dir", "Launch", "apk">>,
   <<"dir", "Am", "--zygote", "--">>,
   <<"-Xmx", "--", "-dir", "--application", "--nice-name=", "Am">>,
   <<"--zygote", "dir">>,
   <<"dir", "--zygote", "Am">>,
   <<"-Xmx", "dir", "--zygote", "Am", "--application", "apk">>,
   <<>>}

None == [p \in Prop |-> ""]
Debug == ("dalvik.vm.checkjni" :> "1" @@ "ro.kernel.android.checkjni" :> "1"
          @@ "dalvik.vm.execution-mode" :> "int:fast" @@ "log.redirect-stdio" :> "true"
          @@ "dalvik.vm.enableassertions" :> "all" @@ "v=" :> "n" @@ "o=" :> "x"
          @@ "m=" :> "y" @@ "dalvik.vm.heapsize" :> "64m" @@ None)
French == ("persist.sys.language" :> "fr" @@ None)
Product == ("ro.product.locale.language" :> "de" @@ "ro.product.locale.region" :> "AT"
            @@ None)
MCSetting == {None, Debug, French, French @@ Product, Product}

Pieces == {"-Xmx", "-Duser.region=", Blank}
MCText == UNION {[1 .. n -> Pieces] : n \in 0 .. 3}

MCKnown ==
  {"-Xzygote", "-Xmx", "-Xms", "-verbose:gc", "-XX:mainThreadStackSize=", "-Xverify:",
   "-Xgenregmap", "-Xgc:", "-agentlib:jdwp", "-Xcheck:", "-Xjnigreflimit:", "-Xint:",
   "-Xlog-stdio", "-ea", "-Duser.language=", "-Duser.region=", "-Djava.io.tmpdir="}
===============================================================================
