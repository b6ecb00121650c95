------------------------------ MODULE MCReading ------------------------------
(* A small instance of Reading for TLC: the applicant's own certificate and a *)
(* relative's, with the scores difflib and the trigrams give their words.     *)
EXTENDS Reading, TLC

Uploads == [
    own |-> [
        applicant_name |-> <<"R.", "Kavya">>, guardian_name |-> <<"Ramesh", "Kumar">>,
        address |-> <<"12", "Gandhi", "Street">>, district |-> <<"Madurai">>,
        pincode |-> <<"625001">>, family_size |-> <<"4">>,
        annual_income |-> <<"Rs.", "4,80,000/-">>,
        annual_income_words |-> <<"Four", "Lakh", "Eighty", "Thousand", "Rupees", "Only">>,
        certificate_id |-> <<"TN-0042">>, issue_date |-> <<"2025-05-01">>,
        issuing_office |-> <<"Madurai", "Taluk", "Office">>],
    relative |-> [
        applicant_name |-> <<"R.", "Priya">>, guardian_name |-> <<"Suresh", "Kumar">>,
        address |-> <<"7", "Anna", "Nagar">>, district |-> <<"Salem">>,
        pincode |-> <<"636001">>, family_size |-> <<"6">>,
        annual_income |-> <<"Rs.", "2,40,000/-">>,
        annual_income_words |-> <<"Two", "Lakh", "Forty", "Thousand", "Rupees", "Only">>,
        certificate_id |-> <<"TN-0077">>, issue_date |-> <<"2025-04-02">>,
        issuing_office |-> <<"Salem", "Taluk", "Office">>]]

TokenDigits == ("625001" :> 625001) @@ ("636001" :> 636001) @@ ("4" :> 4) @@ ("6" :> 6)
               @@ ("4,80,000/-" :> 480000) @@ ("2,40,000/-" :> 240000)

\* SequenceMatcher(None, tokens, target).ratio() in thousandths, where it is 0.75 or more
\* for tokens that MaxHarm = 2 can bring to the start of a line (anywhere on the lines of
\* the masthead and of the certificate number).
LabelRatio ==
    <<"Name", "of", "Applicant">> :>
        (<<"Name", "of", "Applicant">> :> 1000
         @@ <<"Name", "of", "Applicant", "R.">> :> 967
         @@ <<"of", "Applicant", "R.">> :> 814
         @@ <<"Name", "of", "Applicant", "R.", "Kavya">> :> 833
         @@ <<"Name", "Applicant", "R.">> :> 896
         @@ <<"Name", "Applicant", "R.", "Kavya">> :> 764
         @@ <<"Name", "of", "Applicant", "Kavya">> :> 857
         @@ <<"Name", "Applicant", "Kavya">> :> 787
         @@ <<"Name", "of", "Applicant", "R.", "Priya">> :> 833
         @@ <<"Name", "Applicant", "R.", "Priya">> :> 764
         @@ <<"Name", "of", "Applicant", "Priya">> :> 857
         @@ <<"Name", "Applicant", "Priya">> :> 787)
    @@
    <<"Name", "of">> :>
        (<<"Name", "of">> :> 1000
         @@ <<"Name", "of", "R.">> :> 923)
    @@
    <<"Father", "/", "Guardian">> :>
        (<<"Father", "/", "Guardian">> :> 1000
         @@ <<"Father", "/", "Guardian", "Ramesh">> :> 823
         @@ <<"Father", "Guardian", "Ramesh">> :> 823
         @@ <<"Father", "/", "Guardian", "Kumar">> :> 848
         @@ <<"Father", "Guardian", "Kumar">> :> 848
         @@ <<"Father", "/", "Guardian", "Suresh">> :> 823
         @@ <<"Father", "Guardian", "Suresh">> :> 823)
    @@
    <<"Father", "/">> :>
        (<<"Father", "/">> :> 1000)
    @@
    <<"Address">> :>
        (<<"Address">> :> 1000
         @@ <<"Address", "12">> :> 875
         @@ <<"Address", "7">> :> 933
         @@ <<"Address", "Anna">> :> 777)
    @@
    <<"District">> :>
        (<<"e-DISTRICT">> :> 941
         @@ <<"NADU", "e-DISTRICT">> :> 761
         @@ <<"District">> :> 1000
         @@ <<"District", "Salem">> :> 761)
    @@
    <<"PIN", "Code">> :>
        (<<"PIN", "Code">> :> 1000)
    @@
    <<"Members", "in", "Family">> :>
        (<<"Members", "in", "Family">> :> 1000
         @@ <<"Members", "in", "Family", "4">> :> 967
         @@ <<"Members", "Family", "4">> :> 896
         @@ <<"Members", "in", "Family", "6">> :> 967
         @@ <<"Members", "Family", "6">> :> 896)
    @@
    <<"Members", "in">> :>
        (<<"Members", "in">> :> 1000
         @@ <<"Members", "in", "Family">> :> 750
         @@ <<"Members", "in", "4">> :> 947
         @@ <<"Members", "4">> :> 823
         @@ <<"Members", "in", "6">> :> 947
         @@ <<"Members", "6">> :> 823)
    @@
    <<"Annual", "Family", "Income">> :>
        (<<"Annual", "Family", "Income">> :> 1000
         @@ <<"Annual", "Family", "Income", "Rs.">> :> 947
         @@ <<"Family", "Income", "Rs.">> :> 750
         @@ <<"Annual", "Family", "Income", "Rs.", "4,80,000/-">> :> 818
         @@ <<"Annual", "Income", "Rs.">> :> 750
         @@ <<"Annual", "Family", "Rs.">> :> 750
         @@ <<"Annual", "Family", "Income", "4,80,000/-">> :> 857
         @@ <<"Annual", "Family", "Income", "Rs.", "2,40,000/-">> :> 818
         @@ <<"Annual", "Family", "Income", "2,40,000/-">> :> 857)
    @@
    <<"Annual", "Family">> :>
        (<<"Annual", "Family">> :> 1000
         @@ <<"Annual", "Family", "Income">> :> 800
         @@ <<"Annual", "Family", "Income", "Rs.">> :> 750
         @@ <<"Annual", "Family", "Rs.">> :> 923)
    @@
    <<"in", "words">> :>
        (<<"(in", "words)">> :> 1000
         @@ <<"(in", "words)", "Four">> :> 777
         @@ <<"(in", "words)", "Lakh">> :> 777
         @@ <<"(in", "words)", "Two">> :> 823)
    @@
    <<"Certificate", "No.">> :>
        (<<"Certificate", "No.">> :> 1000
         @@ <<"Certificate", "No.", "TN-0042">> :> 812
         @@ <<"Certificate", "TN-0042">> :> 800
         @@ <<"Certificate", "No.", "Date">> :> 866
         @@ <<"Certificate", "No.", "Date", "of">> :> 812
         @@ <<"Certificate", "No.", "TN-0042", "of">> :> 764
         @@ <<"Certificate", "Date">> :> 785
         @@ <<"Certificate", "Date", "of">> :> 800
         @@ <<"Certificate", "TN-0042", "of">> :> 812
         @@ <<"Certificate", "No.", "of">> :> 928
         @@ <<"Certificate", "No.", "TN-0077">> :> 812
         @@ <<"Certificate", "TN-0077">> :> 800
         @@ <<"Certificate", "No.", "TN-0077", "of">> :> 764
         @@ <<"Certificate", "TN-0077", "of">> :> 812)
    @@
    <<"Date">> :>
        (<<"Date">> :> 1000
         @@ <<"Date", "of">> :> 800
         @@ <<"No.", "Date">> :> 800)
    @@
    <<"Date", "of", "Issue">> :>
        (<<"Date", "of", "Issue:">> :> 1000
         @@ <<"TN-0042", "Date", "of", "Issue:">> :> 785
         @@ <<"No.", "Date", "of", "Issue:">> :> 916
         @@ <<"No.", "Date", "Issue:">> :> 818
         @@ <<"TN-0077", "Date", "of", "Issue:">> :> 785)
    @@
    <<"Date", "of">> :>
        (<<"Date", "of">> :> 1000
         @@ <<"No.", "Date", "of">> :> 857)
    @@
    <<"Issuing", "Authority">> :>
        (<<"Issuing", "Authority">> :> 1000)

\* trigramSimilarity of two canonical name parts in hundredths, where it is 0.05 or more:
\* as they are spelled, and by their consonant skeletons.
NameRatio ==
    LET kumar == <<"Kumar">>  ramesh == <<"Ramesh">>  suresh == <<"Suresh">>
        kavya == <<"Kavya">>  priya == <<"Priya">>
        rk == <<"Ramesh", "Kumar">>  sk == <<"Suresh", "Kumar">>
        grk == <<"Guardian", "Ramesh", "Kumar">>  gsk == <<"Guardian", "Suresh", "Kumar">>
    IN [plain |->
            ({grk, gsk} :> 58) @@ ({grk, kumar} :> 19) @@ ({grk, ramesh} :> 13)
            @@ ({grk, rk} :> 42) @@ ({grk, sk} :> 25) @@ ({gsk, kumar} :> 19)
            @@ ({gsk, rk} :> 25) @@ ({gsk, suresh} :> 13) @@ ({gsk, sk} :> 42)
            @@ ({kavya, kumar} :> 9) @@ ({kavya, priya} :> 9) @@ ({kumar, rk} :> 30)
            @@ ({kumar, sk} :> 30) @@ ({ramesh, rk} :> 41) @@ ({ramesh, suresh} :> 9)
            @@ ({rk, sk} :> 37) @@ ({suresh, sk} :> 41),
        skeleton |->
            ({grk, gsk} :> 46) @@ ({grk, kumar} :> 15) @@ ({grk, ramesh} :> 7)
            @@ ({grk, rk} :> 38) @@ ({grk, sk} :> 20) @@ ({gsk, kumar} :> 15)
            @@ ({gsk, rk} :> 20) @@ ({gsk, suresh} :> 7) @@ ({gsk, sk} :> 38)
            @@ ({kavya, kumar} :> 16) @@ ({kumar, rk} :> 22) @@ ({kumar, sk} :> 22)
            @@ ({ramesh, rk} :> 37) @@ ({rk, sk} :> 27) @@ ({suresh, sk} :> 37)]
=============================================================================
