-------------------------- MODULE MCPreviewConfig --------------------------
(* A small instance of PreviewConfig for TLC.                              *)
EXTENDS PreviewConfig, TLC

DefaultValues == [o \in NumberOptions |-> 7]
WellKnown == <<".well-known", "github-preview">>
\* "/api", "/api/" and one that another path begins with.
ApiPaths == {<<"api">>, <<"api", "">>, <<".well-known">>}

\* Two ways to write a PR, a negative number and a branch.
HostLabels == {"42", "042", "-1", "main"}
AtoiOf == "42" :> 42 @@ "042" :> 42 @@ "-1" :> -1 @@ "0" :> 0
DecimalOf == 42 :> "42" @@ -1 :> "-1" @@ 0 :> "0"

WrittenNumbers == {-1, 0, 2}
AllOptions == {"repo", "workflow", "host_re", "api_key", "error_template",
               "error_template_file", "api_path", "stale_while_revalidate",
               "prune_interval", "max_artifacts", "max_artifact_size", "read_cache_size"}
=============================================================================
