\* Reports of two subdomains; the channel fills up, the KPI service may hang, a shutdown comes at any time.
\* Once every report is made and the process has ended nothing happens any more.
SPECIFICATION FairSpec
CONSTANTS
    h1 = h1
    h2 = h2
    h3 = h3
    s1 = s1
    s2 = s2
    Handlers = {h1, h2, h3}
    Subdomains = {s1, s2}
    SubdomainOf <- TwoSubdomains
    Capacity = 1
    MaxExports = 2
INVARIANTS TypeOK EveryReportAccounted PanicOnlyWhenForced
PROPERTY SendersNotStuck
CHECK_DEADLOCK FALSE
