---------------------------- MODULE MCFramePath ----------------------------
EXTENDS FramePath

\* Microphone and speaker on the plain driver; a speaker alone on a codec; both
\* codec chips, on two ports.
ThreeBoards == {{"rx"}, {"codec", "dac"}, {"rx", "codec", "split", "adc", "dac"}}

Aec == [processor |-> "aec", reference |-> "previous"]
Afe == [processor |-> "afe", reference |-> "ring"]

\* Each board with one of the processors, each with one of the references that
\* the pipeline makes itself.
ThreeBuilds == {[board |-> {"rx"}, setup |-> Aec],
                [board |-> {"codec", "dac"}, setup |-> Aec],
                [board |-> {"rx", "codec", "split", "adc", "dac"}, setup |-> Afe]}
=============================================================================
