----------------------------- MODULE MCZfpStream -----------------------------
\* Small instances of ZfpStream.
EXTENDS ZfpStream

MCDimBits == <<12, 6, 4, 3>>
MCReadBits == <<8, 6, 4, 3>>

\* Parameters at the limits of the code words, and invalid ones.
MCParamChoices ==
  { Parameters(0, 20000, 64, 17000), Parameters(1, 40000, 64, -20000),
    Parameters(1, 16658, 65, -1074) }
\* An extent too large to be written, one that is written and not read back,
\* and a field with strides.
MCFieldChoices ==
  { zfp_field("int32", <<4097, 0, 0, 0>>), zfp_field("float", <<300, 0, 0, 0>>),
    [type |-> "int64", n |-> <<4, 3, 2, 1>>, s |-> <<-1, 4, 12, 24>>] }
\* A word that zfp_stream_set_params refuses.
MCDamagedWords ==
  {LongWord(Parameters(9, 8, 64, 0))}
MCMasks == { {"meta"}, {"magic", "meta", "mode"} }
MCExpChoices == {900}
=============================================================================
