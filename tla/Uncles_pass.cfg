\* Uncle inclusion on a known chain of eight blocks with two side blocks:
\* every uncle is paid once and with a positive reward.  The tree stops
\* growing at MaxBlocks, so the terminal states are the bound's.
CONSTANTS
    InitTree <- MCInitTree
    MaxBlocks <- MCMaxBlocks
SPECIFICATION Spec
INVARIANT UncleRewardedOnce
INVARIANT UncleRewardPositive
CHECK_DEADLOCK FALSE
