--------------------------- MODULE MCBrowserEngine ---------------------------
EXTENDS BrowserEngine

MCObjects == {Text, Vision, Decoder, Meta} \cup UNION {Denoiser(r) : r \in Releases}
MCHalved == {Text}
=============================================================================
