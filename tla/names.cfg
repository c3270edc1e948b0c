SPECIFICATION Spec
CONSTANTS
    Chars = {"a", "b", "1", "-"}
    Vowels = {"a"}
    Digits = {"1"}
    Hyphen = "-"
    CommonSuffixes <- SuffixLabels
    Trusted <- TrustedNames
    Excluded <- ExcludedNames
    NLogN <- Table
    Threshold = 1200
    MinLength = 3
    ClusterLimit = 1
    MaxChars = 6
INVARIANTS
    BaseIsBase
    ListsAgree
PROPERTIES
    SubdomainKeepsBase
    ShortLabelKeepsVerdict
CHECK_DEADLOCK FALSE
