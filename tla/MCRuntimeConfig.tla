--------------------------- MODULE MCRuntimeConfig ---------------------------
(* Files, patches and command lines for TLC. *)
EXTENDS RuntimeConfig, TLC

CONSTANTS address, otherAddress, path, otherPath, token1, token2, hash1, noFile

SomeValues == {address, otherAddress, path, otherPath, token1, token2, hash1}

Tokens == {token1, token2}

\* No file; one of an early release; one written by hand with a blank token.
Legacy == [NewFile EXCEPT !["bind"] = Ipv6Only, !["token"] = token1, !["logLevel"] = Blank]
ByHand == [NewFile EXCEPT !["syncListen"] = address, !["syncToken"] = Blank,
                          !["passwordHash"] = Blank, !["sessionSecret"] = token1]
Files == {noFile, Legacy, ByHand}
Complete == Normalised(ByHand, token1, token1)
OneFile == {Complete}

\* Saved in the console: settings, one a path of spaces, a rotated token, a new password.
Settings ==
    {"syncListen" :> address, "dbPath" :> path @@ "logPath" :> Blank, "dbPath" :> Default,
     "syncToken" :> token2, "passwordHash" :> hash1, "adminListen" :> Blank}

\* `config set --listen`, also with one default alone, `--db` and `--generate-token`.
Sets == {"syncListen" :> address, "syncListen" :> Ipv4Only, "dbPath" :> otherPath,
         "syncToken" :> token1, "syncListen" :> Blank}

NoPatch == {}
NoOverride == {<<>>}
OneOverride == {<<>>, "syncListen" :> otherAddress}

=============================================================================
